---- MODULE Spec2Model ----
(***************************************************************************)
(* A model of the data-quality and entity-resolution layer of the employee *)
(* management backend (backend/app/main.py and backend/app/services).      *)
(*                                                                         *)
(* Text is modelled as a sequence of characters (one-character strings);   *)
(* a JSON value is a tagged record (None, Str, Num, List, Dict), so that   *)
(* values of different Python types can be compared.  Every operation is   *)
(* an action that records its arguments in `call` and its result in `ret`; *)
(* `db` is the employees table.                                            *)
(***************************************************************************)
EXTENDS Integers, Sequences, FiniteSets, TLC

VARIABLES db, call, ret

vars == <<db, call, ret>>

(***************************************************************************)
(* Python values                                                           *)
(***************************************************************************)
None == [t |-> "null"]
Str(s) == [t |-> "str", v |-> s]
Num(n) == [t |-> "num", v |-> n]
List(l) == [t |-> "list", v |-> l]
\* A key that a dict does not hold.
Absent == [t |-> "absent"]
\* A dict holds the keys that are given a value.
Dict(d) == [t |-> "dict", v |-> [k \in {key \in DOMAIN d : d[key] # Absent} |-> d[k]]]

IsStr(x) == x.t = "str"
IsList(x) == x.t = "list"
IsDict(x) == x.t = "dict"
IsNone(x) == x.t = "null"

\* Python truthiness of a value (bool(x)).
Truthy(x) ==
    CASE x.t = "null" -> FALSE
      [] x.t = "str" -> x.v # <<>>
      [] x.t = "num" -> x.v # 0
      [] x.t = "list" -> x.v # <<>>
      [] x.t = "dict" -> DOMAIN x.v # {}
      [] x.t = "bool" -> x.v

\* d.get(key, default) and d.get(key)
DictGetOr(d, key, default) == IF key \in DOMAIN d.v THEN d.v[key] ELSE default
DictGet(d, key) == DictGetOr(d, key, None)

(***************************************************************************)
(* Characters and strings                                                  *)
(***************************************************************************)
UpperLetters == <<"A","B","C","D","E","F","G","H","I","J","K","L","M",
                  "N","O","P","Q","R","S","T","U","V","W","X","Y","Z">>
LowerLetters == <<"a","b","c","d","e","f","g","h","i","j","k","l","m",
                  "n","o","p","q","r","s","t","u","v","w","x","y","z">>
Digits == <<"0","1","2","3","4","5","6","7","8","9">>

\* Accented letters are the tokens "e_acute", "E_acute", ... (str.lower and
\* str.upper map between the two cases of a token).
UpperAccents == <<"E_acute", "N_tilde", "A_caron">>
LowerAccents == <<"e_acute", "n_tilde", "a_caron">>

IndexIn(c, seq) == CHOOSE i \in 1..Len(seq) : seq[i] = c
InSeq(c, seq) == \E i \in 1..Len(seq) : seq[i] = c

IsUpper(c) == InSeq(c, UpperLetters)
IsLowerLetter(c) == InSeq(c, LowerLetters)
IsAsciiLetter(c) == IsUpper(c) \/ IsLowerLetter(c)
IsDigit(c) == InSeq(c, Digits)
IsSpace(c) == c \in {" ", "\t", "\n"}

\* str.lower() on one character.
LowerChar(c) ==
    IF InSeq(c, UpperLetters) THEN LowerLetters[IndexIn(c, UpperLetters)]
    ELSE IF InSeq(c, UpperAccents) THEN LowerAccents[IndexIn(c, UpperAccents)]
    ELSE c

\* str.upper() on one character ("sharp_s".upper() is "SS": two characters).
UpperChar(c) ==
    IF InSeq(c, LowerLetters) THEN <<UpperLetters[IndexIn(c, LowerLetters)]>>
    ELSE IF InSeq(c, LowerAccents) THEN <<UpperAccents[IndexIn(c, LowerAccents)]>>
    ELSE IF c = "sharp_s" THEN <<"S", "S">>
    ELSE <<c>>

Lower(s) == [i \in 1..Len(s) |-> LowerChar(s[i])]

RECURSIVE Upper(_)
Upper(s) == IF s = <<>> THEN <<>> ELSE UpperChar(Head(s)) \o Upper(Tail(s))

\* Python's `sub in s` on strings.
Contains(sub, s) ==
    \E i \in 0..(Len(s) - Len(sub)) : SubSeq(s, i + 1, i + Len(sub)) = sub

StartsWith(s, prefix) ==
    Len(prefix) <= Len(s) /\ SubSeq(s, 1, Len(prefix)) = prefix

EndsWith(s, suffix) ==
    Len(suffix) <= Len(s) /\ SubSeq(s, Len(s) - Len(suffix) + 1, Len(s)) = suffix

\* str.strip(chars) and str.strip().
\* The least element of a non-empty set of integers.
Min(S) == CHOOSE x \in S : \A y \in S : x <= y

LStripSet(s, cs) ==
    LET kept == {i \in 1..Len(s) : s[i] \notin cs}
    IN IF kept = {} THEN <<>> ELSE SubSeq(s, Min(kept), Len(s))

RStripSet(s, cs) ==
    LET dropped == {Len(s) - i : i \in {j \in 1..Len(s) : s[j] \notin cs}}
    IN IF dropped = {} THEN <<>> ELSE SubSeq(s, 1, Len(s) - Min(dropped))

StripSet(s, cs) == RStripSet(LStripSet(s, cs), cs)
Whitespace == {" ", "\t", "\n"}
Strip(s) == StripSet(s, Whitespace)

\* str.split(): the maximal runs of non-whitespace characters.
RECURSIVE SplitAcc(_, _, _)
SplitAcc(s, cur, acc) ==
    IF s = <<>> THEN (IF cur = <<>> THEN acc ELSE Append(acc, cur))
    ELSE IF IsSpace(Head(s))
         THEN SplitAcc(Tail(s), <<>>, IF cur = <<>> THEN acc ELSE Append(acc, cur))
         ELSE SplitAcc(Tail(s), Append(cur, Head(s)), acc)

Split(s) == SplitAcc(s, <<>>, <<>>)

\* str.split(sep) for a one-character separator: empty pieces are kept.
RECURSIVE SplitOnAcc(_, _, _, _)
SplitOnAcc(s, sep, cur, acc) ==
    IF s = <<>> THEN Append(acc, cur)
    ELSE IF Head(s) = sep
         THEN SplitOnAcc(Tail(s), sep, <<>>, Append(acc, cur))
         ELSE SplitOnAcc(Tail(s), sep, Append(cur, Head(s)), acc)

SplitOn(s, sep) == SplitOnAcc(s, sep, <<>>, <<>>)

\* ' '.join(words)
RECURSIVE JoinSpace(_)
JoinSpace(words) ==
    IF words = <<>> THEN <<>>
    ELSE IF Len(words) = 1 THEN words[1]
    ELSE words[1] \o <<" ">> \o JoinSpace(Tail(words))

\* re.sub('[cs]+', ' ', s): every maximal run of characters of cs becomes one space.
RECURSIVE SubRuns(_, _, _)
SubRuns(s, cs, inRun) ==
    IF s = <<>> THEN <<>>
    ELSE IF Head(s) \in cs
         THEN (IF inRun THEN <<>> ELSE <<" ">>) \o SubRuns(Tail(s), cs, TRUE)
         ELSE <<Head(s)>> \o SubRuns(Tail(s), cs, FALSE)

\* s.replace(' ', '')
RemoveSpaces(s) == SelectSeq(s, LAMBDA c : c # " ")

\* The set of the elements of a sequence.
Range(seq) == {seq[i] : i \in 1..Len(seq)}

\* re.sub(r'\D', '', s)
DigitsOnly(s) == SelectSeq(s, IsDigit)

\* str(n) for a natural number.
RECURSIVE StrOfNat(_)
StrOfNat(n) ==
    IF n < 10 THEN <<Digits[n + 1]>>
    ELSE StrOfNat(n \div 10) \o <<Digits[(n % 10) + 1]>>

\* int(s) for a string of decimal digits.
RECURSIVE NatOfStr(_)
NatOfStr(s) ==
    IF s = <<>> THEN 0
    ELSE 10 * NatOfStr(SubSeq(s, 1, Len(s) - 1)) + (IndexIn(s[Len(s)], Digits) - 1)

SNone == <<"N","o","n","e">>

\* str(x) of None, a number, a truth value or a string.
PyStr(x) ==
    CASE x.t = "null" -> SNone
      [] x.t = "num" -> IF x.v < 0 THEN <<"-">> \o StrOfNat(-x.v) ELSE StrOfNat(x.v)
      [] x.t = "bool" -> IF x.v THEN <<"T","r","u","e">> ELSE <<"F","a","l","s","e">>
      [] x.t = "str" -> x.v

\* str.zfill(width)
RECURSIVE ZFill(_, _)
ZFill(s, width) == IF Len(s) >= width THEN s ELSE ZFill(<<"0">> \o s, width)

(***************************************************************************)
(* services/search_utils.py: Unicode folding, Soundex, honorifics          *)
(***************************************************************************)
\* UNICODE_TO_ASCII, the entries for the accented characters of the model;
\* "a_caron" is not in the table and is folded by the NFD fallback.
UnicodeToAscii(c) ==
    CASE c = "e_acute" -> <<"e">>
      [] c = "n_tilde" -> <<"n">>
      [] c = "sharp_s" -> <<"s", "s">>
      [] c = "a_caron" -> <<"a">>
      [] OTHER -> <<c>>

RECURSIVE FoldChars(_)
FoldChars(s) ==
    IF s = <<>> THEN <<>> ELSE UnicodeToAscii(Head(s)) \o FoldChars(Tail(s))

\* normalize_unicode(text): lowercases, then folds accented characters.
normalize_unicode(text) ==
    IF text = <<>> THEN <<>> ELSE FoldChars(Lower(text))

\* soundex_map: keyed by the upper-case consonants.
SoundexCode(c) ==
    CASE c \in {"B", "F", "P", "V"} -> "1"
      [] c \in {"C", "G", "J", "K", "Q", "S", "X", "Z"} -> "2"
      [] c \in {"D", "T"} -> "3"
      [] c = "L" -> "4"
      [] c \in {"M", "N"} -> "5"
      [] c = "R" -> "6"
      [] OTHER -> "0"

\* The loop of soundex over name[1:], stopped once four characters are encoded.
RECURSIVE SoundexLoop(_, _, _)
SoundexLoop(rest, encoded, prev_code) ==
    IF rest = <<>> THEN encoded
    ELSE LET code == SoundexCode(Head(rest))
             enc == IF code # "0" /\ code # prev_code
                    THEN Append(encoded, code) ELSE encoded
         IN IF Len(enc) >= 4 THEN enc ELSE SoundexLoop(Tail(rest), enc, code)

\* soundex(name): the name is upper-cased and then passed through
\* normalize_unicode, which lowercases it again before the table is consulted.
soundex(name) ==
    IF name = <<>> THEN <<>>
    ELSE LET nm == normalize_unicode(Strip(Upper(name)))
         IN IF nm = <<>> THEN <<>>
            ELSE SubSeq(SoundexLoop(Tail(nm), <<Head(nm)>>, SoundexCode(Head(nm)))
                        \o <<"0", "0", "0">>, 1, 4)

\* The number of positions at which two word lists have equal Soundex codes (zip).
RECURSIVE SoundexAgree(_, _)
SoundexAgree(words1, words2) ==
    IF words1 = <<>> \/ words2 = <<>> THEN 0
    ELSE (IF soundex(Head(words1)) = soundex(Head(words2)) THEN 1 ELSE 0)
         + SoundexAgree(Tail(words1), Tail(words2))

\* names_sound_similar(name1, name2)
names_sound_similar(name1, name2) ==
    IF name1 = <<>> \/ name2 = <<>> THEN FALSE
    ELSE LET words1 == Split(name1)
             words2 == Split(name2)
         IN IF Len(words1) # Len(words2)
            THEN \/ soundex(words1[1]) = soundex(words2[1])
                 \/ soundex(words1[Len(words1)]) = soundex(words2[Len(words2)])
            ELSE 2 * SoundexAgree(words1, words2) >= Len(words1)

\* HONORIFICS: the titles and suffixes that the names of the model can spell.
HONORIFICS ==
    { <<"m","r">>, <<"m","r",".">>, <<"m","r","s">>, <<"m","s">>,
      <<"d","r">>, <<"d","r",".">>, <<"s","i","r">>,
      <<"j","r">>, <<"j","r",".">>, <<"s","r">>, <<"s","r",".">>,
      <<"i">>, <<"i","i">>, <<"i","i","i">>, <<"i","v">>, <<"v">>,
      <<"p","h","d">>, <<"m","d">>, <<"m","b","a">> }

RECURSIVE KeepNonHonorifics(_)
KeepNonHonorifics(words) ==
    IF words = <<>> THEN <<>>
    ELSE (IF StripSet(Lower(Head(words)), {".", ","}) \in HONORIFICS
          THEN <<>> ELSE <<Head(words)>>) \o KeepNonHonorifics(Tail(words))

\* strip_honorifics(name)
strip_honorifics(name) ==
    IF name = <<>> THEN <<>> ELSE JoinSpace(KeepNonHonorifics(Split(name)))

(***************************************************************************)
(* main.py: the employee matching system of the chat CRUD handler          *)
(***************************************************************************)
\* normalize_name(name)
normalize_name(name) ==
    IF name = <<>> THEN <<>>
    ELSE LET stripped == strip_honorifics(name)
             folded == normalize_unicode(stripped)
             lowered == Strip(Lower(folded))
             dashed == SubRuns(lowered, {"-", "_"}, FALSE)
         IN SubRuns(dashed, Whitespace, FALSE)

\* The score at or above which a lone match is acted upon.
ActionableScore == 70

Match(employee, score, match_type) ==
    [employee |-> employee, score |-> score, match_type |-> match_type]

\* A variant of the exact rule that compares the strings as given.
RuleExactRaw(search_term, name) == search_term = name

\* The rules of calculate_match_score, each as the condition of its `if`.
RuleExact(search_term, name) ==
    normalize_name(search_term) = normalize_name(name)

RuleCaseVariant(search_term, name) ==
    Lower(search_term) = Lower(name)

RuleSpaceVariant(search_term, name) ==
    RemoveSpaces(normalize_name(search_term)) = RemoveSpaces(normalize_name(name))

RuleReversed(search_term, name) ==
    LET search_parts == Split(normalize_name(search_term))
        name_parts == Split(normalize_name(name))
    IN /\ Len(search_parts) >= 2 /\ Len(name_parts) >= 2
       /\ Range(search_parts) = Range(name_parts)

RuleContains(search_term, name) ==
    Contains(normalize_name(search_term), normalize_name(name))

RuleContained(search_term, name) ==
    Contains(normalize_name(name), normalize_name(search_term))

RulePartial(search_term, name) ==
    LET search_parts == Split(normalize_name(search_term))
    IN \E i \in 1..Len(search_parts) :
          Len(search_parts[i]) > 2 /\ Contains(search_parts[i], normalize_name(name))

RuleNickname(search_term, name) ==
    LET search_parts == Split(normalize_name(search_term))
        name_parts == Split(normalize_name(name))
    IN \E i \in 1..Len(name_parts) : \E j \in 1..Len(search_parts) :
          /\ Len(name_parts[i]) > 3
          /\ Len(search_parts[j]) > 2
          /\ \/ Contains(search_parts[j], name_parts[i])
             \/ StartsWith(name_parts[i], search_parts[j])

RulePhonetic(search_term, name) == names_sound_similar(search_term, name)

RuleEmail(search_term, email) ==
    LET email_local == Lower(SplitOn(email, "@")[1])
        squeezed == RemoveSpaces(normalize_name(search_term))
    IN Contains(squeezed, email_local) \/ Contains(email_local, squeezed)

\* calculate_match_score(search_term, employee, match_type): the rules are tried
\* in order and the first that applies returns.
calculate_match_score(search_term, employee) ==
    LET hasName == employee.name # <<>>
        name == employee.name
    IN IF hasName /\ RuleExact(search_term, name)
         THEN Match(employee, 100, "exact")
       ELSE IF hasName /\ RuleCaseVariant(search_term, name)
         THEN Match(employee, 95, "case_variant")
       ELSE IF hasName /\ RuleSpaceVariant(search_term, name)
         THEN Match(employee, 90, "space_variant")
       ELSE IF hasName /\ RuleReversed(search_term, name)
         THEN Match(employee, 85, "reversed")
       ELSE IF hasName /\ RuleContains(search_term, name)
         THEN Match(employee, 70, "contains")
       ELSE IF hasName /\ RuleContained(search_term, name)
         THEN Match(employee, 65, "contained")
       ELSE IF hasName /\ RulePartial(search_term, name)
         THEN Match(employee, 50, "partial")
       ELSE IF hasName /\ RuleNickname(search_term, name)
         THEN Match(employee, 40, "nickname")
       ELSE IF hasName /\ RulePhonetic(search_term, name)
         THEN Match(employee, 35, "phonetic")
       ELSE IF Truthy(employee.email) /\ RuleEmail(search_term, employee.email.v)
         THEN Match(employee, 30, "email")
       ELSE Match(employee, 0, "none")

\* list.sort(key=score, reverse=True): stable, equal scores keep their order.
\* A variant of the insertion that puts a match before the matches of the same score.
RECURSIVE InsertBeforeEqual(_, _)
InsertBeforeEqual(sorted, m) ==
    IF sorted = <<>> THEN <<m>>
    ELSE IF Head(sorted).score > m.score
         THEN <<Head(sorted)>> \o InsertBeforeEqual(Tail(sorted), m)
         ELSE <<m>> \o sorted

\* matches.sort(key=score, reverse=True), one insertion: a stable sort keeps the
\* matches of the same score in the order of the list.
RECURSIVE InsertByScore(_, _)
InsertByScore(sorted, m) ==
    IF sorted = <<>> THEN <<m>>
    ELSE IF Head(sorted).score >= m.score
         THEN <<Head(sorted)>> \o InsertByScore(Tail(sorted), m)
         ELSE <<m>> \o sorted

RECURSIVE SortByScore(_, _)
SortByScore(rest, sorted) ==
    IF rest = <<>> THEN sorted
    ELSE SortByScore(Tail(rest), InsertByScore(sorted, Head(rest)))

\* The loop of find_all_matches: the employees that score above 0, in table order.
RECURSIVE ScoreAll(_, _)
ScoreAll(employees, search_term) ==
    IF employees = <<>> THEN <<>>
    ELSE LET result == calculate_match_score(search_term, Head(employees))
         IN (IF result.score > 0 THEN <<result>> ELSE <<>>)
            \o ScoreAll(Tail(employees), search_term)

\* find_all_matches(db, search_term, 'name')
find_all_matches(employees, search_term) ==
    SortByScore(ScoreAll(employees, search_term), <<>>)

\* str(emp_id) of a number or a string.
StrOf(x) == IF x.t = "num" THEN StrOfNat(x.v) ELSE x.v

\* Whether int(s) succeeds: an unsigned decimal literal, blanks around it allowed.
IntParses(s) ==
    LET lit == Strip(s) IN lit # <<>> /\ \A i \in 1..Len(lit) : IsDigit(lit[i])

\* query(Employee).filter(...).first(): the first of the rows whose indices
\* are in hits, or None.
FirstWhere(employees, hits) ==
    IF hits # {}
    THEN employees[CHOOSE i \in hits : \A j \in hits : i <= j]
    ELSE None

Resolution(single, matches, is_id_ambiguous) ==
    [single |-> single, matches |-> matches, is_id_ambiguous |-> is_id_ambiguous]

\* A variant of the decision that takes the first of the best matches.
DecideFirstOfTop(matches) ==
    IF matches = <<>> THEN Resolution(None, <<>>, FALSE)
    ELSE IF matches[1].score >= ActionableScore
      THEN Resolution(matches[1].employee, <<matches[1]>>, FALSE)
    ELSE Resolution(None, matches, FALSE)

\* A variant of the decision that accepts a lone actionable match whatever
\* scores below the threshold.
DecideLoneActionable(matches) ==
    IF matches = <<>> THEN Resolution(None, <<>>, FALSE)
    ELSE IF /\ matches[1].score >= ActionableScore
            /\ (Len(matches) = 1 \/ matches[2].score < ActionableScore)
      THEN Resolution(matches[1].employee, <<matches[1]>>, FALSE)
    ELSE Resolution(None, matches, FALSE)

\* The decision of resolve_employee_with_duplicates on the scored name matches.
DecideByName(matches) ==
    IF matches = <<>> THEN Resolution(None, <<>>, FALSE)
    ELSE IF Len(matches) = 1 /\ matches[1].score >= ActionableScore
      THEN Resolution(matches[1].employee, <<matches[1]>>, FALSE)
    ELSE Resolution(None, matches, FALSE)

\* A variant of the resolution that goes by the name whenever one is given.
ResolveNameFirst(employees, emp_id, emp_name) ==
    IF Truthy(emp_name) THEN DecideByName(find_all_matches(employees, emp_name.v))
    ELSE Resolution(None, <<>>, FALSE)

\* resolve_employee_with_duplicates(db, emp_id, emp_name)
resolve_employee_with_duplicates(employees, emp_id, emp_name) ==
    IF emp_id # None
    THEN LET emp_id_str == StrOf(emp_id)
             rows == 1..Len(employees)
             byId == IF IntParses(emp_id_str)
                     THEN FirstWhere(employees,
                              {i \in rows : employees[i].id = NatOfStr(Strip(emp_id_str))})
                     ELSE None
             byPadded == FirstWhere(employees,
                             {i \in rows : employees[i].employee_id = ZFill(emp_id_str, 6)})
             byPlain == FirstWhere(employees,
                            {i \in rows : employees[i].employee_id = emp_id_str})
             name_matches == find_all_matches(employees, emp_id_str)
         IN IF byId # None
              THEN Resolution(byId, <<byId>>,
                       \E i \in 1..Len(name_matches) :
                           name_matches[i].score >= ActionableScore)
            ELSE IF byPadded # None THEN Resolution(byPadded, <<byPadded>>, FALSE)
            ELSE IF byPlain # None THEN Resolution(byPlain, <<byPlain>>, FALSE)
            ELSE Resolution(None, <<>>, FALSE)
    ELSE IF Truthy(emp_name)
    THEN DecideByName(find_all_matches(employees, emp_name.v))
    ELSE Resolution(None, <<>>, FALSE)

\* check_duplicate_employee(db, name, email, phone)["is_duplicate"]: the function
\* collects the matching employees and then returns a result that reports none.
check_duplicate_employee(employees, name, email) == FALSE

\* SELECT COALESCE(MAX(CAST(employee_id AS INTEGER)), 0) + 1
NextEmployeeId(employees) ==
    LET ids == {NatOfStr(employees[i].employee_id) : i \in 1..Len(employees)}
    IN IF ids = {} THEN 1 ELSE (CHOOSE m \in ids : \A k \in ids : k <= m) + 1

(***************************************************************************)
(* The catalog and the references of the resolver's model                  *)
(***************************************************************************)
NUnknown == <<"U","n","k","n","o","w","n">>
NJohnSmith == <<"J","o","h","n"," ","S","m","i","t","h">>
NJohnSmithLower == <<"j","o","h","n"," ","s","m","i","t","h">>
NDrJohnSmith == <<"D","r","."," ","J","o","h","n"," ","S","m","i","t","h">>
NSmithJohn == <<"S","m","i","t","h"," ","J","o","h","n">>
NJohnsmith == <<"j","o","h","n","s","m","i","t","h">>
NJohnDoe == <<"J","o","h","n"," ","D","o","e">>
NJohn == <<"J","o","h","n">>
NJon == <<"J","o","n">>
NBob == <<"B","o","b">>
NBill == <<"B","i","l","l">>
NAce == <<"a","c","e">>
NZed == <<"Z","e","d">>
EAce == <<"a","c","e","@","x",".","c","o">>

\* What a create request may carry: a name (or none) and an email (or none).
CreateInputs ==
    { <<Str(NJohnSmith), Str(EAce)>>, <<Str(NJohnSmith), None>>,
      <<Str(NJohn), None>>, <<Str(NBill), None>> }

\* The employee references of a chat command.
NameRefs ==
    { NJohnSmith, NJohnSmithLower, NDrJohnSmith, NSmithJohn, NJohnsmith,
      NJohnDoe, NJohn, NJon, NBob, NAce, NZed }

IdRefs == { Num(1), Num(3), Str(<<"2">>), Str(<<"0","0","0","0","0","1">>), Str(NJohn) }

\* The largest employees table of the model.
MaxEmployees == 2

(***************************************************************************)
(* Actions of the resolver                                                 *)
(***************************************************************************)
Idle == [op |-> "idle"]

\* The chat handler's ACTION: CREATE.
ChatCreate(name, email) ==
    /\ Len(db) < MaxEmployees
    /\ LET emp == [id |-> Len(db) + 1,
                   employee_id |-> ZFill(StrOfNat(NextEmployeeId(db)), 6),
                   name |-> IF Truthy(name) THEN name.v ELSE NUnknown,
                   email |-> email]
       IN IF check_duplicate_employee(db, name, email)
          THEN /\ db' = db
               /\ ret' = [success |-> FALSE]
          ELSE /\ db' = Append(db, emp)
               /\ ret' = [success |-> TRUE, employee |-> emp]
    /\ call' = [op |-> "create", name |-> name, email |-> email]

\* A chat command that names its employee: by name, or by identifier.
Resolve(emp_id, emp_name) ==
    /\ call' = [op |-> "resolve", emp_id |-> emp_id, emp_name |-> emp_name]
    /\ ret' = resolve_employee_with_duplicates(db, emp_id, emp_name)
    /\ UNCHANGED db

InitResolver ==
    /\ db = <<>>
    /\ call = Idle
    /\ ret = None

NextResolver ==
    \/ \E in \in CreateInputs : ChatCreate(in[1], in[2])
    \/ \E nm \in NameRefs : Resolve(None, Str(nm))
    \/ \E id \in IdRefs : Resolve(id, None)
    \/ \E id \in {Num(1), Num(3)} : Resolve(id, Str(NJohn))

SpecResolver == InitResolver /\ [][NextResolver]_vars

(***************************************************************************)
(* Properties of the resolver                                              *)
(***************************************************************************)
\* The text that check_duplicate_employee compares: email.strip().lower().
EmailKey(email) == Strip(Lower(email.v))

\* C25: a create is rejected whenever an existing employee has the same email
\* (case-insensitive) or the same name, so no sequence of creates leaves two
\* records with the same email.
C25_NoTwoSameEmail ==
    \A i, j \in 1..Len(db) :
        (i # j /\ Truthy(db[i].email) /\ Truthy(db[j].email))
            => EmailKey(db[i].email) # EmailKey(db[j].email)
C25_DuplicateRejected ==
    (call.op = "create" /\ ret.success) =>
        \A i \in 1..(Len(db) - 1) :
            /\ ~(Truthy(db[i].email) /\ Truthy(call.email)
                 /\ EmailKey(db[i].email) = EmailKey(call.email))
            /\ ~(Truthy(call.name) /\ Strip(Lower(db[i].name)) = Strip(Lower(call.name.v)))

\* The last operation resolved a reference by name.
ByNameCall == call.op = "resolve" /\ call.emp_id = None /\ Truthy(call.emp_name)

\* The scores of the table's rows for the reference of the last call.
RowScores == [i \in 1..Len(db) |-> calculate_match_score(call.emp_name.v, db[i]).score]

Rows == 1..Len(db)
Scoring(sc) == {i \in Rows : sc[i] > 0}

\* Row i is a candidate of the result, with the given score.
IsCandidate(i, score) ==
    \E k \in 1..Len(ret.matches) :
        ret.matches[k].employee = db[i] /\ ret.matches[k].score = score

\* The candidates are exactly the scoring rows, each with its score.
AllScoringCandidates(sc) ==
    /\ Len(ret.matches) = Cardinality(Scoring(sc))
    /\ \A i \in Scoring(sc) : IsCandidate(i, sc[i])

\* C1: name resolution never guesses among ties.  A single employee is returned
\* only if every other row scores strictly lower; when two or more rows tie
\* for the top score the result is (None, candidates) and every tied row is a
\* candidate with that score.
C1_NoGuessAmongTies ==
    ByNameCall =>
      LET sc == RowScores
      IN /\ ret.single # None =>
               \E i \in Rows :
                   /\ db[i] = ret.single
                   /\ \A j \in Rows \ {i} : sc[j] < sc[i]
         /\ \A i \in Rows : \A j \in Rows \ {i} :
               ( /\ sc[i] > 0
                 /\ sc[i] = sc[j]
                 /\ \A k \in Rows : sc[k] <= sc[i] )
               => /\ ret.single = None
                  /\ IsCandidate(i, sc[i])
                  /\ IsCandidate(j, sc[i])

\* Two rows tie for the top score and both are returned as candidates.
C1_Witness ==
    /\ ByNameCall
    /\ ret.single = None
    /\ Len(ret.matches) = 2
    /\ ret.matches[1].score = ret.matches[2].score
    /\ ret.matches[1].employee # ret.matches[2].employee

\* C2 as claimed: no scoring row gives (None, []); exactly one row at or above
\* the actionable threshold gives (that employee, [that candidate]) whatever
\* the other rows score below the threshold; every other case gives (None, all
\* scoring candidates).
C2_LoneActionableWins ==
    ByNameCall =>
      LET sc == RowScores
          actionable == {i \in Rows : sc[i] >= ActionableScore}
      IN IF Scoring(sc) = {} THEN ret.single = None /\ ret.matches = <<>>
         ELSE IF Cardinality(actionable) = 1
           THEN \E i \in actionable :
                   /\ ret.single = db[i]
                   /\ Len(ret.matches) = 1
                   /\ IsCandidate(i, sc[i])
         ELSE ret.single = None /\ AllScoringCandidates(sc)

\* C2 as amended: no scoring row gives (None, []); exactly one scoring row,
\* at or above the actionable threshold, gives (that employee, [that
\* candidate]); every other case gives (None, all scoring candidates).
C2_DecisionRule ==
    ByNameCall =>
      LET sc == RowScores
      IN IF Scoring(sc) = {} THEN ret.single = None /\ ret.matches = <<>>
         ELSE IF /\ Cardinality(Scoring(sc)) = 1
                 /\ \A i \in Scoring(sc) : sc[i] >= ActionableScore
           THEN \E i \in Scoring(sc) :
                   /\ ret.single = db[i]
                   /\ Len(ret.matches) = 1
                   /\ IsCandidate(i, sc[i])
         ELSE ret.single = None /\ AllScoringCandidates(sc)

\* A lone actionable match is returned from a table of two rows.
C2_Witness ==
    /\ ByNameCall
    /\ Len(db) = 2
    /\ ret.single # None
    /\ Len(ret.matches) = 1
    /\ ret.matches[1].score >= ActionableScore

\* Soundex as documented: the first letter, then the digit codes of the
\* following letters, uncoded letters skipped and directly adjacent equal codes
\* collapsed, padded or cut to four characters ("Smith" is S530).
DocumentedSoundex(word) ==
    LET up == Upper(word)
    IN IF up = <<>> THEN <<>>
       ELSE SubSeq(SoundexLoop(Tail(up), <<Head(up)>>, SoundexCode(Head(up)))
                   \o <<"0", "0", "0">>, 1, 4)

\* The rubric of the claim: the score of the first rule that a row satisfies.
RubricScore(search_term, employee) ==
    LET name == employee.name
        s == normalize_name(search_term)
        n == normalize_name(name)
        sw == Split(s)
        nw == Split(n)
        rw == Split(search_term)
        ew == Split(name)
        named == name # <<>>
    IN IF named /\ s = n THEN 100
       ELSE IF named /\ Lower(search_term) = Lower(name) THEN 95
       ELSE IF named /\ RemoveSpaces(s) = RemoveSpaces(n) THEN 90
       ELSE IF named /\ Len(sw) >= 2 /\ Len(nw) >= 2 /\ Range(sw) = Range(nw) THEN 85
       ELSE IF named /\ Contains(s, n) THEN 70
       ELSE IF named /\ Contains(n, s) THEN 65
       ELSE IF named /\ \E w \in Range(sw) : Len(w) >= 3 /\ Contains(w, n) THEN 50
       ELSE IF named /\ \E w \in Range(nw) : \E r \in Range(sw) :
                  Len(w) >= 4 /\ Len(r) >= 3 /\ Contains(r, w) THEN 40
       ELSE IF /\ named /\ rw # <<>> /\ ew # <<>>
               /\ \/ DocumentedSoundex(rw[1]) = DocumentedSoundex(ew[1])
                  \/ DocumentedSoundex(rw[Len(rw)]) = DocumentedSoundex(ew[Len(ew)])
         THEN 35
       ELSE IF Truthy(employee.email) /\ RuleEmail(search_term, employee.email.v) THEN 30
       ELSE 0

\* C9: every row gets the score of the first rule of the rubric that it
\* satisfies (100, 95, 90, 85, 70, 65, 50, 40, Soundex equality 35, email 30);
\* a row that satisfies no rule scores 0 and is not a candidate.
C9_RubricScores ==
    ByNameCall =>
      \A i \in Rows :
         LET claimed == RubricScore(call.emp_name.v, db[i])
         IN IF claimed = 0
            THEN \A k \in 1..Len(ret.matches) : ret.matches[k].employee # db[i]
            ELSE IsCandidate(i, claimed)

\* C10 as claimed: a reference that differs from a stored name only in letter
\* case scores 95 with match type case_variant for that row.
C10_CaseOnlyScores95 ==
    ByNameCall =>
      \A i \in Rows :
         ( /\ call.emp_name.v # db[i].name
           /\ Lower(call.emp_name.v) = Lower(db[i].name) )
         => \E k \in 1..Len(ret.matches) :
               /\ ret.matches[k].employee = db[i]
               /\ ret.matches[k].score = 95
               /\ ret.matches[k].match_type = "case_variant"

\* C10 as amended: a reference that differs from a stored name only in letter
\* case scores 100 with match type exact for that row (normalization lowercases
\* both sides, so the exact rule applies first), and no candidate ever has the
\* match type case_variant.
C10_CaseOnlyIsExact ==
    ByNameCall =>
      /\ \A i \in Rows :
           ( /\ call.emp_name.v # db[i].name
             /\ Lower(call.emp_name.v) = Lower(db[i].name) )
           => \E k \in 1..Len(ret.matches) :
                 /\ ret.matches[k].employee = db[i]
                 /\ ret.matches[k].score = 100
                 /\ ret.matches[k].match_type = "exact"
      /\ \A k \in 1..Len(ret.matches) : ret.matches[k].match_type # "case_variant"

\* "john smith" is resolved against a table that holds "John Smith".
C10_Witness ==
    /\ ByNameCall
    /\ call.emp_name.v = NJohnSmithLower
    /\ \E i \in Rows : db[i].name = NJohnSmith
    /\ \E k \in 1..Len(ret.matches) : ret.matches[k].match_type = "exact"

(***************************************************************************)
(* services/extraction_utils.py: rule-based verification of an extraction  *)
(***************************************************************************)
SNull == <<"n","u","l","l">>
SNA == <<"N","/","A">>

\* The strings that stand for a missing value.
NullSentinels == {SNull, SNone, <<>>, SNA}

\* Whether one item of a list value is found in the lowercased text.
ItemFound(item, text_lower) ==
    IF IsStr(item) THEN Contains(Lower(item.v), text_lower)
    ELSE IF IsDict(item)
    THEN LET company == Lower(PyStr(DictGetOr(item, "company", Str(<<>>))))
             role == Lower(PyStr(DictGetOr(item, "role", Str(<<>>))))
         IN \/ (company # <<>> /\ Contains(company, text_lower))
            \/ (role # <<>> /\ Contains(role, text_lower))
    ELSE FALSE

\* verify_extraction_field(field_name, value, original_text)
verify_extraction_field(field_name, value, original_text) ==
    IF IsNone(value) \/ (IsStr(value) /\ value.v \in NullSentinels) THEN TRUE
    ELSE LET text_lower == Lower(original_text) IN
      IF IsStr(value)
      THEN LET value_lower == Lower(value.v) IN
           IF Contains(value_lower, text_lower) THEN TRUE
           ELSE IF field_name = "name"
           THEN LET words == Split(value_lower)
                IN \A i \in 1..Len(words) :
                       Len(words[i]) > 2 => Contains(words[i], text_lower)
           ELSE FALSE
      ELSE IF IsList(value)
      THEN LET found_count ==
                   Cardinality({i \in 1..Len(value.v) : ItemFound(value.v[i], text_lower)})
           IN IF value.v # <<>> THEN found_count > 0 ELSE TRUE
      ELSE TRUE

verify_fields == {"name", "email", "phone", "position"}

\* A variant of the verification that checks every field of the extraction.
VerifyEveryField(extraction, original_text) ==
    IF ~IsDict(extraction) THEN extraction
    ELSE Dict([field \in DOMAIN extraction.v |->
                 IF /\ Truthy(extraction.v[field])
                    /\ ~verify_extraction_field(field, extraction.v[field], original_text)
                 THEN None
                 ELSE extraction.v[field]])

\* quick_verify_extraction(extraction, original_text)
quick_verify_extraction(extraction, original_text) ==
    IF ~IsDict(extraction) THEN extraction
    ELSE Dict([field \in DOMAIN extraction.v |->
                 LET value == extraction.v[field] IN
                 IF /\ field \in verify_fields
                    /\ Truthy(value)
                    /\ ~verify_extraction_field(field, value, original_text)
                 THEN None
                 ELSE extraction.v[field]])

(***************************************************************************)
(* The extractions and the source texts of the verifier's model            *)
(***************************************************************************)
TJohnResume == <<"J","o","h","n"," ","S","m","i","t","h","\n",
                 "a","@","x",".","c","o"," ","5","5","5","\n","D","e","v">>
TAnnResume == <<"A","n","n"," ","L","e","e",","," ","C","E","O">>
SourceTexts == {TJohnResume, TAnnResume}

NJoSmith == <<"J","o"," ","S","M","I","T","H">>
EAx == <<"A","@","x",".","c","o">>
EBx == <<"b","@","x",".","c","o">>
P555 == <<"5","5","5">>
P777 == <<"7","7","7">>
SDev == <<"d","e","v">>
SCeo == <<"C","E","O">>
SAcme == <<"A","c","m","e">>

ExtractedNames == {Absent, Str(NJohnSmithLower), Str(NJoSmith), Str(NBob)}
ExtractedEmails == {None, Str(EAx), Str(EBx), Str(SNA)}
ExtractedPhones ==
    {Absent, None, Str(P555), Str(P777), Num(555), Num(777), Str(SNull),
     List(<<Str(P555)>>), List(<<Str(P777)>>)}
ExtractedPositions ==
    {None, Str(SDev), Str(SCeo),
     List(<<Dict([company |-> Str(SAcme), role |-> Str(SDev)])>>),
     List(<<Dict([company |-> None, role |-> Absent])>>)}

Extractions ==
    {Dict([name |-> n, email |-> e, phone |-> p, position |-> r,
           department |-> Str(SAcme)]) :
        n \in ExtractedNames, e \in ExtractedEmails,
        p \in ExtractedPhones, r \in ExtractedPositions}
    \cup {None, List(<<Str(NBob)>>)}

\* The pipeline's verification step, applied to the extraction at hand.
QuickVerify ==
    /\ call.op = "extracted"
    /\ call' = [call EXCEPT !.op = "quick_verify"]
    /\ ret' = quick_verify_extraction(call.extraction, call.original_text)
    /\ UNCHANGED db

\* An extraction of the LLM and the text it was made from.
InitVerifier ==
    /\ db = <<>>
    /\ call \in {[op |-> "extracted", extraction |-> extraction,
                  original_text |-> original_text] :
                     extraction \in Extractions, original_text \in SourceTexts}
    /\ ret = None

NextVerifier == QuickVerify

SpecVerifier == InitVerifier /\ [][NextVerifier]_vars

(***************************************************************************)
(* Properties of the verifier                                              *)
(***************************************************************************)
\* A value that can be traced to the text: a string (or the decimal text of a
\* number) that occurs in it whatever the case, a list with an item that does,
\* or a name whose words of three or more characters all occur in it.
Traceable(field, value, text) ==
    LET text_lower == Lower(text) IN
    CASE IsStr(value) ->
           \/ Contains(Lower(value.v), text_lower)
           \/ /\ field = "name"
              /\ \A w \in Range(Split(Lower(value.v))) :
                     Len(w) >= 3 => Contains(w, text_lower)
      [] value.t = "num" -> Contains(StrOfNat(value.v), text_lower)
      [] IsList(value) -> \E i \in 1..Len(value.v) : ItemFound(value.v[i], text_lower)
      [] OTHER -> FALSE

\* C3: after quick_verify_extraction(record, source_text) every non-null value
\* left in name, email, phone or position is traceable to source_text (a string
\* that stands for a missing value is read as null here).
C3_VerifiedValuesTraceable ==
    (call.op = "quick_verify" /\ IsDict(call.extraction)) =>
        \A field \in verify_fields :
            LET value == DictGet(ret, field)
            IN (value # None /\ ~(IsStr(value) /\ value.v \in NullSentinels))
                   => Traceable(field, value, call.original_text)

\* The four high-risk fields of the verification.
HighRiskFields == {"name", "email", "phone", "position"}

\* C27: quick_verify_extraction changes nothing but name, email, phone and
\* position: the output has the fields of the input, every other field with
\* the value it had, each of the four either with the value it had or null;
\* an extraction that is no record is returned as it is.
C27_OnlyHighRiskFieldsChange ==
    call.op = "quick_verify" =>
        IF IsDict(call.extraction)
        THEN /\ IsDict(ret)
             /\ DOMAIN ret.v = DOMAIN call.extraction.v
             /\ \A field \in DOMAIN ret.v :
                    \/ ret.v[field] = call.extraction.v[field]
                    \/ field \in HighRiskFields /\ ret.v[field] = None
        ELSE ret = call.extraction

\* A verified record with a high-risk field set to null and its department kept.
C27_Witness ==
    /\ call.op = "quick_verify"
    /\ IsDict(call.extraction)
    /\ \E field \in HighRiskFields :
           /\ Truthy(DictGet(call.extraction, field))
           /\ DictGet(ret, field) = None
    /\ Truthy(DictGet(ret, "department"))

\* The caller's record is the same before and after the call: the function
\* writes into a copy of it.
C27_InputUnmodified ==
    [][call'.op = "quick_verify" =>
           /\ call'.extraction = call.extraction
           /\ call'.original_text = call.original_text]_vars

(***************************************************************************)
(* json.loads: the JSON texts of the model are built from objects, arrays, *)
(* strings (with the escapes \" \\ \/ \n \t), integers, true, false and    *)
(* null; a text that is not JSON raises JSONDecodeError.                   *)
(***************************************************************************)
JsonWhitespace == {" ", "\t", "\n", "\r"}

\* The string of a sequence of characters, the key of a dict.
RECURSIVE KeyOf(_)
KeyOf(s) == IF s = <<>> THEN "" ELSE Head(s) \o KeyOf(Tail(s))

\* The position of the first character at or after i that is not whitespace.
RECURSIVE SkipWs(_, _)
SkipWs(s, i) == IF i <= Len(s) /\ s[i] \in JsonWhitespace THEN SkipWs(s, i + 1) ELSE i

\* The outcome of a scanning step: a value and the position after it, or a failure.
Parsed(v, i) == [ok |-> TRUE, v |-> v, i |-> i]
JSONDecodeError == [ok |-> FALSE]

LiteralAt(s, i, lit) == i + Len(lit) - 1 <= Len(s) /\ SubSeq(s, i, i + Len(lit) - 1) = lit

\* The characters of a string whose opening quote is before position i.
RECURSIVE ScanString(_, _, _)
ScanString(s, i, acc) ==
    IF i > Len(s) THEN JSONDecodeError
    ELSE IF s[i] = "\"" THEN Parsed(acc, i + 1)
    ELSE IF s[i] = "\\"
         THEN IF i + 1 > Len(s) THEN JSONDecodeError
              ELSE IF s[i + 1] \in {"\"", "\\", "/"}
                   THEN ScanString(s, i + 2, Append(acc, s[i + 1]))
              ELSE IF s[i + 1] = "n" THEN ScanString(s, i + 2, Append(acc, "\n"))
              ELSE IF s[i + 1] = "t" THEN ScanString(s, i + 2, Append(acc, "\t"))
              ELSE JSONDecodeError
    ELSE IF s[i] \in {"\n", "\t", "\r"} THEN JSONDecodeError
    ELSE ScanString(s, i + 1, Append(acc, s[i]))

\* The end of the run of digits that starts at i.
RECURSIVE DigitsEnd(_, _)
DigitsEnd(s, i) == IF i <= Len(s) /\ IsDigit(s[i]) THEN DigitsEnd(s, i + 1) ELSE i

\* An integer at position i: -?(0|[1-9][0-9]*)
ScanNumber(s, i) ==
    LET neg == i <= Len(s) /\ s[i] = "-"
        j == IF neg THEN i + 1 ELSE i
    IN IF j > Len(s) \/ ~IsDigit(s[j]) THEN JSONDecodeError
       ELSE LET e == IF s[j] = "0" THEN j + 1 ELSE DigitsEnd(s, j)
                n == NatOfStr(SubSeq(s, j, e - 1))
            IN Parsed(Num(IF neg THEN 0 - n ELSE n), e)

RECURSIVE ScanValue(_, _)
RECURSIVE ScanItems(_, _, _)
RECURSIVE ScanPairs(_, _, _)

\* The items of an array after its first item: i is after an item.
ScanItems(s, i, acc) ==
    LET j == SkipWs(s, i) IN
    IF j > Len(s) THEN JSONDecodeError
    ELSE IF s[j] = "]" THEN Parsed(List(acc), j + 1)
    ELSE IF s[j] = ","
         THEN LET item == ScanValue(s, SkipWs(s, j + 1))
              IN IF item.ok THEN ScanItems(s, item.i, Append(acc, item.v))
                 ELSE JSONDecodeError
    ELSE JSONDecodeError

\* One "key": value pair at position i (after whitespace), added to the dict d.
ScanPair(s, i, d) ==
    IF i > Len(s) \/ s[i] # "\"" THEN JSONDecodeError
    ELSE LET key == ScanString(s, i + 1, <<>>) IN
         IF ~key.ok THEN JSONDecodeError
         ELSE LET c == SkipWs(s, key.i) IN
              IF c > Len(s) \/ s[c] # ":" THEN JSONDecodeError
              ELSE LET val == ScanValue(s, SkipWs(s, c + 1)) IN
                   IF ~val.ok THEN JSONDecodeError
                   ELSE LET k == KeyOf(key.v)
                        IN Parsed([x \in DOMAIN d \cup {k} |->
                                      IF x = k THEN val.v ELSE d[x]], val.i)

\* The pairs of an object after its first pair: i is after a pair.
ScanPairs(s, i, d) ==
    LET j == SkipWs(s, i) IN
    IF j > Len(s) THEN JSONDecodeError
    ELSE IF s[j] = "}" THEN Parsed(Dict(d), j + 1)
    ELSE IF s[j] = ","
         THEN LET pair == ScanPair(s, SkipWs(s, j + 1), d)
              IN IF pair.ok THEN ScanPairs(s, pair.i, pair.v) ELSE JSONDecodeError
    ELSE JSONDecodeError

\* The value that starts at position i.
ScanValue(s, i) ==
    IF i > Len(s) THEN JSONDecodeError
    ELSE IF s[i] = "\""
         THEN LET str == ScanString(s, i + 1, <<>>)
              IN IF str.ok THEN Parsed(Str(str.v), str.i) ELSE JSONDecodeError
    ELSE IF s[i] = "{"
         THEN LET j == SkipWs(s, i + 1) IN
              IF j <= Len(s) /\ s[j] = "}" THEN Parsed(Dict(<<>>), j + 1)
              ELSE LET pair == ScanPair(s, j, <<>>)
                   IN IF pair.ok THEN ScanPairs(s, pair.i, pair.v) ELSE JSONDecodeError
    ELSE IF s[i] = "["
         THEN LET j == SkipWs(s, i + 1) IN
              IF j <= Len(s) /\ s[j] = "]" THEN Parsed(List(<<>>), j + 1)
              ELSE LET item == ScanValue(s, j)
                   IN IF item.ok THEN ScanItems(s, item.i, <<item.v>>) ELSE JSONDecodeError
    ELSE IF LiteralAt(s, i, <<"n","u","l","l">>) THEN Parsed(None, i + 4)
    ELSE IF LiteralAt(s, i, <<"t","r","u","e">>) THEN Parsed([t |-> "bool", v |-> TRUE], i + 4)
    ELSE IF LiteralAt(s, i, <<"f","a","l","s","e">>) THEN Parsed([t |-> "bool", v |-> FALSE], i + 5)
    ELSE ScanNumber(s, i)

\* json.loads(s): [ok |-> TRUE, v |-> value], or JSONDecodeError.
json_loads(s) ==
    LET val == ScanValue(s, SkipWs(s, 1)) IN
    IF val.ok /\ SkipWs(s, val.i) = Len(s) + 1 THEN [ok |-> TRUE, v |-> val.v]
    ELSE JSONDecodeError

(***************************************************************************)
(* Regular expressions (module re): a pattern is a sequence of items, each *)
(* a character class with a greedy repetition count or a word boundary,    *)
(* matched with backtracking as re does.                                   *)
(***************************************************************************)
DigitChars == Range(Digits)
LetterChars == Range(UpperLetters) \cup Range(LowerLetters)
\* \w
WordChars == LetterChars \cup DigitChars \cup {"_"} \cup Range(UpperAccents) \cup Range(LowerAccents)

\* [set]{min,max}, [set]{min,}, [^set]{min,}, and one literal character.
Cls(set, min, max) == [kind |-> "cls", set |-> set, neg |-> FALSE, min |-> min, max |-> max, bounded |-> TRUE]
ClsMin(set, min) == [kind |-> "cls", set |-> set, neg |-> FALSE, min |-> min, max |-> min, bounded |-> FALSE]
NotClsMin(set, min) == [kind |-> "cls", set |-> set, neg |-> TRUE, min |-> min, max |-> min, bounded |-> FALSE]
Lit(c) == Cls({c}, 1, 1)
Opt(set) == Cls(set, 0, 1)
\* \b
WordB == [kind |-> "b"]

\* The items that match the characters of a literal text, one by one.
LitSeq(text) == [i \in 1..Len(text) |-> Lit(text[i])]
\* The same whatever the case (re.IGNORECASE).
LitSeqAnyCase(text) ==
    [i \in 1..Len(text) |-> Cls({LowerChar(text[i])} \cup Range(UpperChar(text[i])), 1, 1)]

InClass(c, item) == (c \in item.set) # item.neg

\* How many characters from position i on are in the class of the item, up to
\* the item's maximum.
RunLen(s, i, item) ==
    LET last == IF item.bounded /\ i + item.max - 1 < Len(s) THEN i + item.max - 1 ELSE Len(s)
        stops == {j \in i..last : ~InClass(s[j], item)}
    IN IF stops = {} THEN last + 1 - i ELSE Min(stops) - i

\* \b at position i: a word character on exactly one side.
WordBoundary(s, i) ==
    LET before == i > 1 /\ i - 1 <= Len(s) /\ s[i - 1] \in WordChars
        after == i <= Len(s) /\ s[i] \in WordChars
    IN before # after

\* $ at position i: the end of the text, or just before a final newline.
AtEnd(s, i) == i = Len(s) + 1 \/ (i = Len(s) /\ s[i] = "\n")

\* The position after the match of items[k..] at position i that backtracking
\* finds first (each item takes as many characters as the rest allows), or 0.
RECURSIVE MatchFrom(_, _, _, _, _)
MatchFrom(items, k, s, i, dollar) ==
    IF k > Len(items) THEN (IF dollar => AtEnd(s, i) THEN i ELSE 0)
    ELSE IF items[k].kind = "b"
         THEN (IF WordBoundary(s, i) THEN MatchFrom(items, k + 1, s, i, dollar) ELSE 0)
    ELSE LET run == RunLen(s, i, items[k])
             good == {c \in items[k].min..run :
                        MatchFrom(items, k + 1, s, i + c, dollar) # 0}
         IN IF good = {} THEN 0
            ELSE MatchFrom(items, k + 1, s,
                           i + (CHOOSE c \in good : \A o \in good : o <= c), dollar)

\* re.match(pattern, s) for a pattern ^items$ or items$: whether it matches.
ReMatchEnd(items, s) == MatchFrom(items, 1, s, 1, TRUE) # 0
\* re.match(pattern, s) for a pattern without $.
ReMatch(items, s) == MatchFrom(items, 1, s, 1, FALSE) # 0

\* The first position at or after i where the items match, or 0.
SearchFrom(items, s, i) ==
    LET starts == {p \in i..(Len(s) + 1) : MatchFrom(items, 1, s, p, FALSE) # 0}
    IN IF starts = {} THEN 0 ELSE Min(starts)

\* bool(re.search(pattern, s))
ReSearch(items, s) == SearchFrom(items, s, 1) # 0

\* re.findall(pattern, s) for a pattern without groups: the matched texts, in
\* order, each search starting where the match before ended.
RECURSIVE FindAllFrom(_, _, _)
FindAllFrom(items, s, i) ==
    LET p == SearchFrom(items, s, i) IN
    IF p = 0 THEN <<>>
    ELSE LET e == MatchFrom(items, 1, s, p, FALSE)
         IN <<SubSeq(s, p, e - 1)>> \o FindAllFrom(items, s, IF e = p THEN e + 1 ELSE e)

ReFindAll(items, s) == FindAllFrom(items, s, 1)

(***************************************************************************)
(* services/validators.py: the field validators.  A confidence is a number *)
(* of hundredths (95 is 0.95).                                             *)
(***************************************************************************)
INPUT_LIMITS ==
    [resume_text_min |-> 50, resume_text_max |-> 50000, name_max |-> 100,
     email_max |-> 254, phone_max |-> 30, url_max |-> 2048,
     text_field_max |-> 5000, array_max_items |-> 50]

\* PATTERNS["email"], PATTERNS["phone"], PATTERNS["url"], PATTERNS["name"]
EmailLocalChars == LetterChars \cup DigitChars \cup {".", "_", "%", "+", "-"}
EmailDomainChars == LetterChars \cup DigitChars \cup {".", "-"}
EmailItems ==
    <<ClsMin(EmailLocalChars, 1), Lit("@"), ClsMin(EmailDomainChars, 1), Lit("."),
      ClsMin(LetterChars, 2)>>
PhoneChars == DigitChars \cup Whitespace \cup {"-", ".", "(", ")"}
PhoneItems == <<Opt({"+"}), Cls(PhoneChars, 7, 30)>>
UrlItems ==
    <<Cls({"h", "H"}, 1, 1), Cls({"t", "T"}, 2, 2), Cls({"p", "P"}, 1, 1),
      Opt({"s", "S"}), Lit(":"), Cls({"/"}, 2, 2),
      NotClsMin(Whitespace \cup {"<", ">", "\"", "{", "}", "|", "\\", "^", "backtick", "[", "]"}, 1)>>
NameItems == <<ClsMin(LetterChars \cup Whitespace \cup {".", "-", "'"}, 1)>>

VALID_DEPARTMENTS ==
    {<<"I","T">>, <<"Q","u","a","l","i","t","y"," ","A","s","s","u","r","a","n","c","e">>, <<"P","r","o","j","e","c","t"," ","M","a","n","a","g","e","m","e","n","t">>, <<"H","u","m","a","n"," ","R","e","s","o","u","r","c","e","s">>, <<"F","i","n","a","n","c","e">>, <<"M","a","r","k","e","t","i","n","g">>, <<"S","a","l","e","s">>, <<"C","u","s","t","o","m","e","r"," ","S","u","p","p","o","r","t">>, <<"O","p","e","r","a","t","i","o","n","s">>, <<"R","e","s","e","a","r","c","h"," ","&"," ","D","e","v","e","l","o","p","m","e","n","t">>, <<"E","n","g","i","n","e","e","r","i","n","g">>, <<"D","e","s","i","g","n">>, <<"L","e","g","a","l">>}

\* An order in which a set of strings is iterated.
DepartmentOrders ==
    { <<<<"I","T">>, <<"Q","u","a","l","i","t","y"," ","A","s","s","u","r","a","n","c","e">>, <<"P","r","o","j","e","c","t"," ","M","a","n","a","g","e","m","e","n","t">>, <<"H","u","m","a","n"," ","R","e","s","o","u","r","c","e","s">>, <<"F","i","n","a","n","c","e">>, <<"M","a","r","k","e","t","i","n","g">>, <<"S","a","l","e","s">>, <<"C","u","s","t","o","m","e","r"," ","S","u","p","p","o","r","t">>, <<"O","p","e","r","a","t","i","o","n","s">>, <<"R","e","s","e","a","r","c","h"," ","&"," ","D","e","v","e","l","o","p","m","e","n","t">>, <<"E","n","g","i","n","e","e","r","i","n","g">>, <<"D","e","s","i","g","n">>, <<"L","e","g","a","l">>>>,
      <<<<"L","e","g","a","l">>, <<"D","e","s","i","g","n">>, <<"E","n","g","i","n","e","e","r","i","n","g">>, <<"R","e","s","e","a","r","c","h"," ","&"," ","D","e","v","e","l","o","p","m","e","n","t">>, <<"O","p","e","r","a","t","i","o","n","s">>, <<"C","u","s","t","o","m","e","r"," ","S","u","p","p","o","r","t">>, <<"S","a","l","e","s">>, <<"M","a","r","k","e","t","i","n","g">>, <<"F","i","n","a","n","c","e">>, <<"H","u","m","a","n"," ","R","e","s","o","u","r","c","e","s">>, <<"P","r","o","j","e","c","t"," ","M","a","n","a","g","e","m","e","n","t">>, <<"Q","u","a","l","i","t","y"," ","A","s","s","u","r","a","n","c","e">>, <<"I","T">>>> }

\* ValidationResult: errors and warnings are empty and confidence is 1.0 by default.
ValidationResult(is_valid, value, errors, warnings, confidence) ==
    [is_valid |-> is_valid, value |-> value, errors |-> errors,
     warnings |-> warnings, confidence |-> confidence]
Valid(value, confidence) == ValidationResult(TRUE, value, <<>>, <<>>, confidence)
ValidWarn(value, warning, confidence) == ValidationResult(TRUE, value, <<>>, <<warning>>, confidence)
\* A variant of a rejection that carries an empty text for the rejected value.
InvalidEmpty(error) == ValidationResult(FALSE, Str(<<>>), <<error>>, <<>>, 100)
Invalid(error) == ValidationResult(FALSE, None, <<error>>, <<>>, 100)

\* x is None or x in ['null', 'None', '', 'N/A']
IsNullLike(x) == IsNone(x) \/ (IsStr(x) /\ x.v \in NullSentinels)

\* s.count(sub) for a non-empty sub: the occurrences that do not overlap.
RECURSIVE CountFrom(_, _, _)
CountFrom(sub, s, i) ==
    LET found == {p \in i..(Len(s) - Len(sub) + 1) : SubSeq(s, p, p + Len(sub) - 1) = sub}
    IN IF found = {} THEN 0 ELSE 1 + CountFrom(sub, s, Min(found) + Len(sub))

Count(sub, s) == CountFrom(sub, s, 1)

\* validate_email(email)
validate_email(email) ==
    IF IsNullLike(email) THEN Valid(None, 0)
    ELSE LET e == Lower(Strip(PyStr(email))) IN
      IF Len(e) > INPUT_LIMITS.email_max THEN Invalid("Email too long")
      ELSE IF ReMatchEnd(EmailItems, e)
      THEN IF Count(<<"@">>, e) # 1 THEN Invalid("Invalid email format")
           ELSE LET parts == SplitOn(e, "@")
                    local == parts[1]
                    domain == parts[2]
                IN IF Len(local) > 64 \/ Len(domain) > 255 THEN Invalid("Email parts too long")
                   ELSE IF /\ domain \notin {<<"g","m","a","i","l",".","c","o","m">>, <<"y","a","h","o","o",".","c","o","m">>, <<"h","o","t","m","a","i","l",".","c","o","m">>, <<"o","u","t","l","o","o","k",".","c","o","m">>}
                           /\ \E d \in {<<"g","m","i","a","l">>, <<"y","a","h","o">>, <<"h","o","t","m","a","l">>} : Contains(d, domain)
                        THEN ValidWarn(Str(e), "Possible email domain typo", 70)
                   ELSE Valid(Str(e), 95)
      ELSE Invalid("Invalid email format")

\* validate_phone(phone)
validate_phone(phone) ==
    IF IsNullLike(phone) THEN Valid(None, 0)
    ELSE LET p == Strip(PyStr(phone))
             digits_only == DigitsOnly(p)
         IN IF Len(digits_only) < 7 THEN Invalid("Phone number too short (less than 7 digits)")
            ELSE IF Len(digits_only) > 15 THEN Invalid("Phone number too long (more than 15 digits)")
            ELSE IF ReMatchEnd(PhoneItems, p) THEN Valid(Str(p), 90)
            ELSE IF 7 <= Len(digits_only) /\ Len(digits_only) <= 15
                 THEN ValidWarn(Str(digits_only), "Phone format normalized to digits only", 70)
            ELSE Invalid("Invalid phone format")

\* ^[A-Z][a-z]+(\s+[A-Z][a-z]+)*$ on a stripped name: words of a capital and
\* one or more small letters.
ProperlyCapitalized(name) ==
    /\ name # <<>>
    /\ \A i \in 1..Len(name) : IsUpper(name[i]) \/ IsLowerLetter(name[i]) \/ IsSpace(name[i])
    /\ \A w \in Range(Split(name)) :
           /\ Len(w) >= 2
           /\ IsUpper(w[1])
           /\ \A i \in 2..Len(w) : IsLowerLetter(w[i])

\* Whether one of suspicious_patterns is found in the name (re.IGNORECASE).
SuspiciousName(name) ==
    LET low == Lower(name) IN
    \/ ReMatchEnd(<<ClsMin(DigitChars, 1)>>, name)
    \/ ReMatchEnd(<<NotClsMin(LetterChars, 1)>>, name)
    \/ \E w \in {<<"t","e","s","t">>, <<"e","x","a","m","p","l","e">>, <<"s","a","m","p","l","e">>, <<"d","u","m","m","y">>, <<"p","l","a","c","e","h","o","l","d","e","r">>} : Contains(w, low)
    \/ \E w \in {<<"r","e","s","u","m","e">>, <<"c","v">>, <<"c","u","r","r","i","c","u","l","u","m">>} : Contains(w, low)
    \/ ReMatchEnd(<<Cls({"n", "N"}, 1, 1), Opt({"/"}), Cls({"a", "A"}, 1, 1)>>, name)

\* validate_name(name)
validate_name(name) ==
    IF IsNullLike(name) \/ (IsStr(name) /\ name.v \in {NUnknown, <<"P","e","n","d","i","n","g"," ","e","x","t","r","a","c","t","i","o","n",".",".",".">>})
    THEN Invalid("Name is missing or invalid")
    ELSE LET n == Strip(PyStr(name)) IN
      IF Len(n) < 2 THEN Invalid("Name too short")
      ELSE IF Len(n) > INPUT_LIMITS.name_max THEN Invalid("Name too long")
      ELSE IF SuspiciousName(n) THEN Invalid("Name appears invalid")
      ELSE Valid(Str(n), IF ProperlyCapitalized(n) THEN 95
                         ELSE IF ReMatchEnd(NameItems, n) THEN 85
                         ELSE 80)

\* validate_url(url, url_type)
validate_url(url, url_type) ==
    IF IsNullLike(url) THEN Valid(None, 0)
    ELSE LET stripped == Strip(PyStr(url)) IN
      IF Len(stripped) > INPUT_LIMITS.url_max THEN Invalid("URL too long")
      ELSE LET u == IF StartsWith(stripped, <<"h","t","t","p",":","/","/">>) \/ StartsWith(stripped, <<"h","t","t","p","s",":","/","/">>)
                    THEN stripped ELSE <<"h","t","t","p","s",":","/","/">> \o stripped
           IN IF ~ReMatchEnd(UrlItems, u) THEN Invalid("Invalid URL format")
              ELSE IF url_type = "linkedin"
                   THEN IF Contains(<<"l","i","n","k","e","d","i","n",".","c","o","m">>, Lower(u)) THEN Valid(Str(u), 95)
                        ELSE Invalid("Not a LinkedIn URL")
              ELSE IF url_type = "github"
                   THEN IF Contains(<<"g","i","t","h","u","b",".","c","o","m">>, Lower(u)) THEN Valid(Str(u), 95)
                        ELSE Invalid("Not a GitHub URL")
              ELSE Valid(Str(u), 80)

\* The first element of the iteration order that satisfies the test, given as
\* the set of the elements that do.
FirstInOrder(order, hits) ==
    order[CHOOSE i \in 1..Len(order) :
              order[i] \in hits /\ \A j \in 1..(i - 1) : order[j] \notin hits]

\* validate_department(department), where order is the order in which the
\* set VALID_DEPARTMENTS is iterated.
validate_department(department, order) ==
    IF IsNullLike(department) THEN Valid(None, 0)
    ELSE LET dep == Strip(PyStr(department))
             dept_lower == Lower(dep)
             same == {v \in VALID_DEPARTMENTS : dept_lower = Lower(v)}
             fuzzy == {v \in VALID_DEPARTMENTS :
                         Contains(Lower(v), dept_lower) \/ Contains(dept_lower, Lower(v))}
         IN IF dep \in VALID_DEPARTMENTS THEN Valid(Str(dep), 95)
            ELSE IF same # {} THEN Valid(Str(FirstInOrder(order, same)), 90)
            ELSE IF fuzzy # {}
                 THEN ValidWarn(Str(FirstInOrder(order, fuzzy)), "Department normalized", 70)
            ELSE ValidWarn(Str(dep), "Non-standard department", 50)

\* [v.strip() for v in value.split(',') if v.strip()]
SplitByComma(s) ==
    LET pieces == SplitOn(s, ",")
        stripped == [i \in 1..Len(pieces) |-> Str(Strip(pieces[i]))]
    IN SelectSeq(stripped, LAMBDA x : x.v # <<>>)

\* validate_array_field(value, field_name)
validate_array_field(value, field_name) ==
    IF IsNullLike(value) THEN Valid(None, 0)
    ELSE LET parsed == IF IsStr(value) THEN json_loads(value.v) ELSE JSONDecodeError
             items == IF ~IsStr(value) THEN value
                      ELSE IF parsed.ok THEN parsed.v
                      ELSE List(SplitByComma(value.v))
         IN IF ~IsList(items) THEN Invalid("must be a list")
            ELSE IF Len(items.v) > INPUT_LIMITS.array_max_items
                 THEN ValidWarn(List(SubSeq(items.v, 1, INPUT_LIMITS.array_max_items)),
                                "truncated", 80)
            ELSE IF \A i \in 1..Len(items.v) : IsStr(items.v[i]) \/ IsDict(items.v[i])
                 THEN LET cleaned == SelectSeq(items.v,
                                        LAMBDA item : Truthy(item) /\ ~IsNullLike(item))
                      IN Valid(IF cleaned # <<>> THEN List(cleaned) ELSE None, 90)
            ELSE Valid(items, 80)

(***************************************************************************)
(* services/validators.py: the validators of the uploaded document         *)
(***************************************************************************)
\* INPUT_LIMITS.get(key, default)
LimitOr(key, default) == IF key \in DOMAIN INPUT_LIMITS THEN INPUT_LIMITS[key] ELSE default

\* validate_input_length(text, field_name)
validate_input_length(text, field_name) ==
    IF ~Truthy(text) THEN ValidationResult(FALSE, text, <<"is empty">>, <<>>, 100)
    ELSE LET text_len == Len(text.v)
             min_len == LimitOr(field_name \o "_min", 0)
             max_len == LimitOr(field_name \o "_max", INPUT_LIMITS.text_field_max)
             errors == IF text_len < min_len THEN <<"is too short">> ELSE <<>>
             warnings == IF text_len > max_len THEN <<"exceeds maximum length">> ELSE <<>>
             kept == IF text_len > max_len THEN SubSeq(text.v, 1, max_len) ELSE text.v
         IN ValidationResult(errors = <<>>, Str(kept), errors, warnings, 100)

section_keywords ==
    {
      <<"e","x","p","e","r","i","e","n","c","e">>, <<"w","o","r","k"," ","e","x","p","e","r","i","e","n","c","e">>, <<"e","m","p","l","o","y","m","e","n","t"," ","h","i","s","t","o","r","y">>,
      <<"p","r","o","f","e","s","s","i","o","n","a","l"," ","e","x","p","e","r","i","e","n","c","e">>, <<"e","d","u","c","a","t","i","o","n">>,
      <<"a","c","a","d","e","m","i","c"," ","b","a","c","k","g","r","o","u","n","d">>, <<"q","u","a","l","i","f","i","c","a","t","i","o","n","s">>, <<"s","k","i","l","l","s">>,
      <<"t","e","c","h","n","i","c","a","l"," ","s","k","i","l","l","s">>, <<"c","o","r","e"," ","c","o","m","p","e","t","e","n","c","i","e","s">>, <<"e","x","p","e","r","t","i","s","e">>,
      <<"o","b","j","e","c","t","i","v","e">>, <<"c","a","r","e","e","r"," ","o","b","j","e","c","t","i","v","e">>,
      <<"p","r","o","f","e","s","s","i","o","n","a","l"," ","s","u","m","m","a","r","y">>, <<"s","u","m","m","a","r","y">>, <<"c","e","r","t","i","f","i","c","a","t","i","o","n","s">>,
      <<"c","e","r","t","i","f","i","c","a","t","e","s">>, <<"l","i","c","e","n","s","e","s">>, <<"p","r","o","j","e","c","t","s">>, <<"a","c","h","i","e","v","e","m","e","n","t","s">>,
      <<"a","c","c","o","m","p","l","i","s","h","m","e","n","t","s">>, <<"r","e","f","e","r","e","n","c","e","s">>, <<"a","w","a","r","d","s">>, <<"p","u","b","l","i","c","a","t","i","o","n","s">> }
professional_keywords ==
    {
      <<"r","e","s","u","m","e">>, <<"c","v">>, <<"c","u","r","r","i","c","u","l","u","m"," ","v","i","t","a","e">>, <<"j","o","b">>, <<"p","o","s","i","t","i","o","n">>, <<"r","o","l","e">>,
      <<"r","e","s","p","o","n","s","i","b","i","l","i","t","i","e","s">>, <<"e","m","p","l","o","y","e","r">>, <<"c","o","m","p","a","n","y">>, <<"o","r","g","a","n","i","z","a","t","i","o","n">>,
      <<"m","a","n","a","g","e","r">>, <<"e","n","g","i","n","e","e","r">>, <<"d","e","v","e","l","o","p","e","r">>, <<"a","n","a","l","y","s","t">>, <<"c","o","n","s","u","l","t","a","n","t">>,
      <<"w","o","r","k","e","d">>, <<"m","a","n","a","g","e","d">>, <<"d","e","v","e","l","o","p","e","d">>, <<"l","e","d">>, <<"i","m","p","l","e","m","e","n","t","e","d">>,
      <<"y","e","a","r","s"," ","o","f"," ","e","x","p","e","r","i","e","n","c","e">>, <<"y","e","a","r","s"," ","e","x","p","e","r","i","e","n","c","e">> }
non_resume_indicators ==
    <<
      <<"i","n","v","o","i","c","e">>, <<"r","e","c","e","i","p","t">>, <<"c","o","n","t","r","a","c","t">>, <<"a","g","r","e","e","m","e","n","t">>, <<"b","i","l","l">>,
      <<"s","t","a","t","e","m","e","n","t">>, <<"r","e","p","o","r","t">>, <<"m","e","e","t","i","n","g"," ","m","i","n","u","t","e","s">>, <<"m","e","m","o">>, <<"p","o","l","i","c","y">>,
      <<"m","a","n","u","a","l">>, <<"i","n","s","t","r","u","c","t","i","o","n","s">>, <<"l","e","t","t","e","r"," ","o","f"," ","r","e","c","o","m","m","e","n","d","a","t","i","o","n">>,
      <<"c","o","v","e","r"," ","l","e","t","t","e","r">> >>

\* email_search_pattern and phone_search_pattern
PhoneSearchItems == <<Opt({"+"}), Cls(PhoneChars, 10, 20)>>

\* (19|20)\d{2}
YearItems == {LitSeq(c) \o <<Cls(DigitChars, 2, 2)>> : c \in {<<"1","9">>, <<"2","0">>}}
DashItems == <<ClsMin(Whitespace, 0), Cls({"-", "en_dash"}, 1, 1), ClsMin(Whitespace, 0)>>
MonthNames == {<<"j","a","n">>, <<"f","e","b">>, <<"m","a","r">>, <<"a","p","r">>, <<"m","a","y">>, <<"j","u","n">>, <<"j","u","l">>, <<"a","u","g">>, <<"s","e","p">>, <<"o","c","t">>, <<"n","o","v">>, <<"d","e","c">>}

\* date_patterns: each pattern is the set of the item sequences of its alternatives.
date_patterns ==
    << {<<WordB>> \o y1 \o DashItems \o y2 \o <<WordB>> : y1 \in YearItems, y2 \in YearItems},
       {<<WordB>> \o y1 \o DashItems \o LitSeq(w) \o <<WordB>> :
            y1 \in YearItems, w \in {<<"p","r","e","s","e","n","t">>, <<"c","u","r","r","e","n","t">>, <<"n","o","w">>}},
       {<<WordB>> \o LitSeq(m) \o <<ClsMin(Range(LowerLetters), 0), ClsMin(Whitespace, 0)>>
                  \o y1 \o <<WordB>> : m \in MonthNames, y1 \in YearItems} >>

RESUME_THRESHOLD == 40

\* How many of the section keywords the text holds.
SectionMatches(text_lower) ==
    Cardinality({kw \in section_keywords : Contains(kw, text_lower)})

\* The signs of another kind of document that count against the text.
FlaggedIndicators(text_lower) ==
    SelectSeq(non_resume_indicators,
              LAMBDA ind :
                \/ Count(ind, text_lower) >= 3
                \/ /\ Contains(ind, SubSeq(text_lower, 1, IF Len(text_lower) < 200
                                                          THEN Len(text_lower) ELSE 200))
                   /\ SectionMatches(text_lower) < 2)

\* The score of a document: the points of its keywords, contact details and
\* dates, less those of the signs of another kind of document.
ResumeScore(text) ==
    LET text_lower == Lower(text)
        section_matches == SectionMatches(text_lower)
        professional_matches ==
            Cardinality({kw \in professional_keywords : Contains(kw, text_lower)})
        has_email == ReSearch(EmailItems, text)
        has_phone == ReSearch(PhoneSearchItems, text)
        date_matches ==
            Cardinality({p \in 1..Len(date_patterns) :
                            \E items \in date_patterns[p] : ReSearch(items, text_lower)})
    IN (IF section_matches >= 3 THEN 35 ELSE IF section_matches >= 2 THEN 25
        ELSE IF section_matches >= 1 THEN 15 ELSE 0)
       + (IF professional_matches >= 4 THEN 25 ELSE IF professional_matches >= 2 THEN 15
          ELSE IF professional_matches >= 1 THEN 8 ELSE 0)
       + (IF has_email THEN 15 ELSE 0)
       + (IF has_phone THEN 10 ELSE 0)
       + (IF date_matches >= 2 THEN 15 ELSE IF date_matches >= 1 THEN 8 ELSE 0)
       - 20 * Len(FlaggedIndicators(text_lower))

\* validate_is_resume(text)
validate_is_resume(text) ==
    IF ~Truthy(text) \/ Len(Strip(text.v)) < 50
    THEN ValidationResult(FALSE, text, <<"too short or empty">>, <<>>, 0)
    ELSE LET score == ResumeScore(text.v)
             confidence == IF score < 0 THEN 0 ELSE IF score > 100 THEN 100 ELSE score
             warnings == FlaggedIndicators(Lower(text.v))
         IN IF score < RESUME_THRESHOLD
            THEN ValidationResult(FALSE, text, <<"does not appear to be a resume/CV">>,
                                  warnings, confidence)
            ELSE ValidationResult(TRUE, text, <<>>, warnings, confidence)

(***************************************************************************)
(* The inputs of the validators' model                                     *)
(***************************************************************************)
\* A text of n characters.
TextOfLen(n) == [i \in 1..n |-> "x"]

TResume == <<"J","o","h","n"," ","S","m","i","t","h","\n","j","o","h","n","@","x",".","c","o"," ","5","5","5","-","1","2","3","-","4","5","6","7","\n","E","x","p","e","r","i","e","n","c","e",":"," ","E","n","g","i","n","e","e","r"," ","a","t"," ","A","c","m","e"," ","2","0","1","8","-","2","0","2","0","\n","E","d","u","c","a","t","i","o","n",":"," ","B","S","c","\n","S","k","i","l","l","s",":"," ","P","y","t","h","o","n">>
TInvoice == <<"I","n","v","o","i","c","e"," ","1","2","3","4","\n","B","i","l","l"," ","t","o",":"," ","A","c","m","e"," ","C","o","r","p","\n","A","m","o","u","n","t"," ","d","u","e",":"," ","5","0","0"," ","U","S","D","\n","P","l","e","a","s","e"," ","p","a","y"," ","t","h","e"," ","i","n","v","o","i","c","e"," ","b","y"," ","F","r","i","d","a","y",","," ","t","h","a","n","k","s">>
TShortResume == <<"R","e","s","u","m","e"," ","o","f"," ","A","n","n"," ","L","e","e",","," ","d","e","v","e","l","o","p","e","r"," ","s","i","n","c","e"," ","J","a","n"," ","2","0","2","0"," ","-"," ","p","r","e","s","e","n","t",";"," ","w","o","r","k","e","d"," ","a","t"," ","A","c","m","e"," ","a","s"," ","m","a","n","a","g","e","r">>
TMemo == <<"M","e","e","t","i","n","g"," ","r","e","p","o","r","t",":"," ","s","k","i","l","l","s"," ","a","n","d"," ","e","d","u","c","a","t","i","o","n"," ","p","o","l","i","c","y"," ","m","e","m","o"," ","f","o","r"," ","t","h","e"," ","c","o","m","p","a","n","y",","," ","2","0","1","9"," ","-"," ","P","r","e","s","e","n","t",","," ","c","a","l","l"," ","5","5","5"," ","1","2","3"," ","4","5","6","7"," ","n","o","w">>
TBlank == [i \in 1..60 |-> " "]

EmailInputs ==
    {None, Num(5), Str(<<"N","/","A">>), Str(<<>>), Str(<<"J","o","h","n","@","X",".","c","o"," ">>), Str(<<"a","@","b">>), Str(<<"a","@","g","m","i","a","l",".","c","o","m">>), Str(<<"a","@","y","a","h","o","o",".","c","o","m">>), Str(<<"a","@","y","a","h","o","o",".","c","o",".","u","k">>), Str(<<"a"," ","b","@","x",".","c","o">>), Str(<<"a","@","x",".","c","0","m">>), Str(<<"@","x",".","c","o">>),
     Str(TextOfLen(INPUT_LIMITS.email_max - 4) \o EAx)}
PhoneInputs ==
    {None, Num(5551234), Str(<<"n","u","l","l">>), Str(<<"5","5","5","-","1","2","3","4">>), Str(<<"5","5","5","1","2","3","4">>), Str(<<"+","1"," ","(","5","5","5",")"," ","1","2","3","-","4","5","6","7">>), Str(<<"5","5","5"," ","1","2","3"," ","4","5","6","7"," ","e","x","t"," ","9">>), Str(<<"1","2","3","4","5","6","7","8","9","0","1","2","3","4","5","6","7">>), Str(<<"+","+","1","5","5","5","1","2","3","4","5","6","7">>), Str(<<"1","2","3","4","5","6">>)}
NameInputs ==
    {None, Num(7), Str(NUnknown), Str(NJohnSmith), Str(NJohnSmithLower), Str(NDrJohnSmith),
     Str(<<"P","e","n","d","i","n","g"," ","e","x","t","r","a","c","t","i","o","n",".",".",".">>), Str(<<"J">>), Str(<<"O","'","B","r","i","e","n">>), Str(<<"M","c","V","e","y">>), Str(<<"T","e","s","t"," ","U","s","e","r">>), Str(<<"1","2","3","4","5">>), Str(<<"J","o","h","n","3"," ","S","m","i","t","h">>), Str(<<"N","/","A">>), Str(<<"n","/","a">>), Str(<<"J","e","a","n","-","L","u","c"," ","P","i","c","a","r","d">>), Str(<<" ","J","o"," ">>),
     Str(TextOfLen(INPUT_LIMITS.name_max + 1))}
UrlInputs ==
    {None, Str(<<>>), Str(<<"l","i","n","k","e","d","i","n",".","c","o","m","/","i","n","/","j","o">>), Str(<<"h","t","t","p",":","/","/","L","i","n","k","e","d","I","n",".","c","o","m","/","x">>), Str(<<"h","t","t","p","s",":","/","/","g","i","t","h","u","b",".","c","o","m","/","j","o">>), Str(<<"H","T","T","P",":","/","/","l","i","n","k","e","d","i","n",".","c","o","m","/","x">>), Str(<<"h","t","t","p","s",":","/","/","l","i","n","k","e","d","i","n",".","c","o","m","/","a"," ","b">>), Str(<<"h","t","t","p","s",":","/","/","l","i","n","k","e","d","i","n",".","c","o","m","/","<","x",">">>),
     Str(TextOfLen(INPUT_LIMITS.url_max + 1))}
UrlTypes == {"linkedin", "github", "url"}
DepartmentInputs ==
    {None, Num(5), Str(<<"I","T">>), Str(<<"i","t">>), Str(<<"E","n","g","i","n","e","e","r","i","n","g"," ","D","e","p","t">>), Str(<<"e">>), Str(<<"S","a","l","e","s"," ">>), Str(<<"A","s","t","r","o","l","o","g","y">>), Str(<<"D","e","s","i","g","n"," ","&"," ","L","e","g","a","l">>), Str(<<"N","/","A">>)}
ArrayInputs ==
    {None, Num(7), Str(<<"N","/","A">>), Str(<<"a",","," ","b",",",",","c">>), Str(<<"[","\"","a","\"",","," ","\"","\"",","," ","\"","n","u","l","l","\"",","," ","\"","b","\"","]">>), Str(<<"5">>), Str(<<"\"","a","b","c","\"">>), Str(<<"{","\"","a","\"",":","1","}">>), Str(<<"[","1",","," ","n","u","l","l","]">>), Str(<<",">>),
     List(<<Str(SAcme), Str(<<>>), Str(SNA), Dict([k |-> Num(1)]), Dict(<<>>)>>),
     List(<<Num(1), None, Str(SAcme)>>), List(<<>>), List(<<Str(SNull)>>),
     List([i \in 1..(INPUT_LIMITS.array_max_items + 1) |-> Str(<<>>)])}
DocumentInputs ==
    {None, Str(<<>>), Str(SDev), Str(TResume), Str(TInvoice), Str(TShortResume), Str(TMemo),
     Str(TBlank)}
\* A document that is longer than the limit.
LongDocument == Str(TextOfLen(INPUT_LIMITS.resume_text_max + 1))

FieldValidators ==
    {"validate_email", "validate_phone", "validate_name", "validate_url",
     "validate_department", "validate_array_field"}

ValidatorInput(validator, arg, param) ==
    [op |-> "input", validator |-> validator, arg |-> arg, param |-> param]

ValidatorInputs ==
    {ValidatorInput("validate_email", x, "") : x \in EmailInputs}
    \cup {ValidatorInput("validate_phone", x, "") : x \in PhoneInputs}
    \cup {ValidatorInput("validate_name", x, "") : x \in NameInputs}
    \cup {ValidatorInput("validate_url", x, t) : x \in UrlInputs, t \in UrlTypes}
    \cup {ValidatorInput("validate_department", x, "") : x \in DepartmentInputs}
    \cup {ValidatorInput("validate_array_field", x, "technical_skills") : x \in ArrayInputs}
    \cup {ValidatorInput("validate_input_length", x, "resume_text") :
              x \in DocumentInputs \cup {LongDocument}}
    \cup {ValidatorInput("validate_is_resume", x, "") : x \in DocumentInputs}

(***************************************************************************)
(* Actions of the validators: each applies one validator to the input      *)
(***************************************************************************)
Validated(validator, result) ==
    /\ call.op = "input"
    /\ call.validator = validator
    /\ call' = [call EXCEPT !.op = "validated"]
    /\ ret' = result
    /\ UNCHANGED db

ValidateEmail == Validated("validate_email", validate_email(call.arg))
ValidatePhone == Validated("validate_phone", validate_phone(call.arg))
ValidateName == Validated("validate_name", validate_name(call.arg))
ValidateUrl == Validated("validate_url", validate_url(call.arg, call.param))
ValidateDepartment ==
    \E order \in DepartmentOrders :
        Validated("validate_department", validate_department(call.arg, order))
ValidateArrayField ==
    Validated("validate_array_field", validate_array_field(call.arg, call.param))
ValidateInputLength ==
    Validated("validate_input_length", validate_input_length(call.arg, call.param))
ValidateIsResume == Validated("validate_is_resume", validate_is_resume(call.arg))

InitValidators ==
    /\ db = <<>>
    /\ call \in ValidatorInputs
    /\ ret = None

NextValidators ==
    \/ ValidateEmail
    \/ ValidatePhone
    \/ ValidateName
    \/ ValidateUrl
    \/ ValidateDepartment
    \/ ValidateArrayField
    \/ ValidateInputLength
    \/ ValidateIsResume

SpecValidators == InitValidators /\ [][NextValidators]_vars

(***************************************************************************)
(* Properties of the validators                                            *)
(***************************************************************************)
\* C4 as stated: every ValidationResult returned by any validator of the
\* module satisfies is_valid = false implies value = null.
C4_InvalidImpliesNull ==
    call.op = "validated" => (~ret.is_valid => ret.value = None)

\* C4: every ValidationResult returned by a field validator satisfies
\* is_valid = false implies value = null; validate_input_length and
\* validate_is_resume return the text they were given as the value of an
\* invalid result.
C4_FieldValidatorsNullOnInvalid ==
    (call.op = "validated" /\ ~ret.is_valid) =>
        IF call.validator \in FieldValidators THEN ret.value = None
        ELSE ret.value = call.arg

\* A field validator has rejected a value that was given.
C4_Witness ==
    /\ call.op = "validated"
    /\ call.validator \in FieldValidators
    /\ ~IsNullLike(call.arg)
    /\ ~ret.is_valid

\* The items of the list that an accepted array field returns.
ArrayCall == call.op = "validated" /\ call.validator = "validate_array_field"
ValidatedItems == IF IsList(ret.value) THEN ret.value.v ELSE <<>>

\* C22: a list that validate_array_field accepts has at most array_max_items
\* items after validation, and none of them is null, "", "null", "None" or
\* "N/A".
C22_BoundedAndClean ==
    (ArrayCall /\ ret.is_valid) =>
        /\ Len(ValidatedItems) <= INPUT_LIMITS.array_max_items
        /\ \A i \in 1..Len(ValidatedItems) : ~IsNullLike(ValidatedItems[i])

\* The bound alone holds, and a longer list is cut with a warning.
C22_Bounded ==
    (ArrayCall /\ ret.is_valid) =>
        /\ Len(ValidatedItems) <= INPUT_LIMITS.array_max_items
        /\ (IsList(call.arg) /\ Len(call.arg.v) > INPUT_LIMITS.array_max_items)
               => (ret.warnings # <<>> /\ Len(ValidatedItems) = INPUT_LIMITS.array_max_items)

(***************************************************************************)
(* services/extraction_utils.py: recovery of the LLM's JSON answer.  The   *)
(* character ` is the token "backtick".                                    *)
(***************************************************************************)
Fence == <<"backtick", "backtick", "backtick">>

\* d[key] = value on a dict, and `key in d`.
DictSet(d, key, value) ==
    [t |-> "dict", v |-> [k \in DOMAIN d.v \cup {key} |-> IF k = key THEN value ELSE d.v[k]]]
HasKey(d, key) == key \in DOMAIN d.v

\* ^ and $ under re.MULTILINE
LineStart(s, p) == p = 1 \/ s[p - 1] = "\n"
LineEnd(s, p) == p = Len(s) + 1 \/ s[p] = "\n"

\* The end of the run of whitespace that starts at p.
WsEnd(s, p) == p + RunLen(s, p, ClsMin(Whitespace \cup {"\r"}, 0))

\* re.sub(r'^```(?:json)?\s*', '', s, flags=re.MULTILINE), from position i on.
RECURSIVE SubFenceOpen(_, _)
SubFenceOpen(s, i) ==
    LET starts == {p \in i..Len(s) : LineStart(s, p) /\ LiteralAt(s, p, Fence)} IN
    IF starts = {} THEN SubSeq(s, i, Len(s))
    ELSE LET p == Min(starts)
             word == IF LiteralAt(s, p + 3, <<"j","s","o","n">>) THEN p + 7 ELSE p + 3
         IN SubSeq(s, i, p - 1) \o SubFenceOpen(s, WsEnd(s, word))

\* re.sub(r'\s*```$', '', s, flags=re.MULTILINE), from position i on.
RECURSIVE SubFenceClose(_, _)
SubFenceClose(s, i) ==
    LET starts == {p \in i..Len(s) :
                     LiteralAt(s, WsEnd(s, p), Fence) /\ LineEnd(s, WsEnd(s, p) + 3)} IN
    IF starts = {} THEN SubSeq(s, i, Len(s))
    ELSE LET p == Min(starts)
         IN SubSeq(s, i, p - 1) \o SubFenceClose(s, WsEnd(s, p) + 3)

\* brace_count after the character at position i.
BraceCount(s, i) ==
    Cardinality({j \in 1..i : s[j] = "{"}) - Cardinality({j \in 1..i : s[j] = "}"})

\* clean_json_response(response): the text, or None.
clean_json_response(response) ==
    IF response = <<>> THEN None
    ELSE LET s == SubFenceClose(SubFenceOpen(response, 1), 1)
             opens == {i \in 1..Len(s) : s[i] = "{"}
             start_idx == IF opens = {} THEN 0 ELSE Min(opens)
             closes == {i \in 1..Len(s) :
                          s[i] = "}" /\ BraceCount(s, i) = 0 /\ start_idx # 0 /\ i > start_idx}
         IN IF closes = {} THEN None ELSE Str(SubSeq(s, start_idx, Min(closes)))

\* re.search(r'\{.*\}', response, re.DOTALL): the matched text, or None.
BraceSpan(response) ==
    LET opens == {i \in 1..Len(response) : response[i] = "{"}
        closes == {Len(response) - i : i \in {j \in 1..Len(response) : response[j] = "}"}}
    IN IF opens = {} \/ closes = {} \/ Len(response) - Min(closes) < Min(opens) THEN None
       ELSE Str(SubSeq(response, Min(opens), Len(response) - Min(closes)))

\* EMAIL_PATTERN.findall: the pattern of PATTERNS["email"] without anchors.
\* extract_email_from_text(text)
extract_email_from_text(text) ==
    IF text = <<>> THEN None
    ELSE LET matches == ReFindAll(EmailItems, text)
             kept == SelectSeq(matches,
                        LAMBDA email :
                          /\ \A skip \in {<<"e","x","a","m","p","l","e",".","c","o","m">>, <<"t","e","s","t",".","c","o","m">>, <<"d","o","m","a","i","n",".","c","o","m">>, <<"e","m","a","i","l",".","c","o","m">>} :
                                 ~Contains(skip, Lower(email))
                          /\ ~EndsWith(Lower(email), <<".","p","n","g">>)
                          /\ ~EndsWith(Lower(email), <<".","j","p","g">>))
         IN IF matches = <<>> THEN None
            ELSE IF kept # <<>> THEN Str(kept[1])
            ELSE Str(matches[1])

PhoneSep == Opt({"-", "."} \cup Whitespace)
phone_patterns ==
    << <<Opt({"+"}), Cls(DigitChars, 1, 3), PhoneSep, Opt({"("}), Cls(DigitChars, 3, 3),
         Opt({")"}), PhoneSep, Cls(DigitChars, 3, 3), PhoneSep, Cls(DigitChars, 4, 4)>>,
       <<Opt({"("}), Cls(DigitChars, 3, 3), Opt({")"}), PhoneSep, Cls(DigitChars, 3, 3),
         PhoneSep, Cls(DigitChars, 4, 4)>>,
       <<Cls(DigitChars, 10, 12)>>,
       <<Lit("+"), Cls(DigitChars, 2, 2), Opt(Whitespace), Cls(DigitChars, 10, 10)>> >>

\* The matches of all the patterns, pattern by pattern.
RECURSIVE PhoneMatches(_, _)
PhoneMatches(text, k) ==
    IF k > Len(phone_patterns) THEN <<>>
    ELSE ReFindAll(phone_patterns[k], text) \o PhoneMatches(text, k + 1)

\* extract_phone_from_text(text)
extract_phone_from_text(text) ==
    IF text = <<>> THEN None
    ELSE LET good == SelectSeq(PhoneMatches(text, 1),
                               LAMBDA match : Len(DigitsOnly(match)) >= 10)
         IN IF good = <<>> THEN None ELSE Str(Strip(good[1]))

PROGRAMMING_LANGUAGES ==
    {
      <<"a","s","s","e","m","b","l","y">>, <<"b","a","s","h">>, <<"c">>, <<"c","#">>, <<"c","+","+">>,
      <<"c","o","b","o","l">>, <<"c","s","s">>, <<"d","a","r","t">>, <<"f","o","r","t","r","a","n">>,
      <<"g","o">>, <<"g","r","o","o","v","y">>, <<"h","a","s","k","e","l","l">>, <<"h","t","m","l">>,
      <<"j","a","v","a">>, <<"j","a","v","a","s","c","r","i","p","t">>, <<"k","o","t","l","i","n">>,
      <<"l","u","a">>, <<"m","a","t","l","a","b">>, <<"o","b","j","e","c","t","i","v","e","-","c">>,
      <<"p","e","r","l">>, <<"p","h","p">>, <<"p","o","w","e","r","s","h","e","l","l">>,
      <<"p","y","t","h","o","n">>, <<"r">>, <<"r","u","b","y">>, <<"r","u","s","t">>,
      <<"s","c","a","l","a">>, <<"s","h","e","l","l">>, <<"s","q","l">>, <<"s","w","i","f","t">>,
      <<"t","y","p","e","s","c","r","i","p","t">>, <<"v","b","a">> }

\* DEPARTMENT_RULES and COUNTRY_LANGUAGES, in the order of their keys.
DEPARTMENT_RULES ==
    <<
      <<<<"d","e","v","e","l","o","p","e","r">>, <<"I","T">>>>,
      <<<<"e","n","g","i","n","e","e","r">>, <<"I","T">>>>,
      <<<<"p","r","o","g","r","a","m","m","e","r">>, <<"I","T">>>>,
      <<<<"s","o","f","t","w","a","r","e">>, <<"I","T">>>>,
      <<<<"w","e","b"," ","d","e","v","e","l","o","p","e","r">>, <<"I","T">>>>,
      <<<<"f","r","o","n","t","e","n","d">>, <<"I","T">>>>, <<<<"b","a","c","k","e","n","d">>, <<"I","T">>>>,
      <<<<"f","u","l","l","s","t","a","c","k">>, <<"I","T">>>>,
      <<<<"f","u","l","l"," ","s","t","a","c","k">>, <<"I","T">>>>,
      <<<<"d","e","v","o","p","s">>, <<"I","T">>>>,
      <<<<"d","a","t","a"," ","s","c","i","e","n","t","i","s","t">>, <<"I","T">>>>,
      <<<<"d","a","t","a"," ","a","n","a","l","y","s","t">>, <<"I","T">>>>,
      <<<<"q","a">>, <<"Q","u","a","l","i","t","y"," ","A","s","s","u","r","a","n","c","e">>>>,
      <<<<"q","u","a","l","i","t","y">>, <<"Q","u","a","l","i","t","y"," ","A","s","s","u","r","a","n","c","e">>>>,
      <<<<"t","e","s","t","e","r">>, <<"Q","u","a","l","i","t","y"," ","A","s","s","u","r","a","n","c","e">>>>,
      <<<<"t","e","s","t","i","n","g">>, <<"Q","u","a","l","i","t","y"," ","A","s","s","u","r","a","n","c","e">>>>,
      <<<<"s","d","e","t">>, <<"Q","u","a","l","i","t","y"," ","A","s","s","u","r","a","n","c","e">>>>,
      <<<<"s","c","r","u","m"," ","m","a","s","t","e","r">>, <<"P","r","o","j","e","c","t"," ","M","a","n","a","g","e","m","e","n","t">>>>,
      <<<<"p","r","o","j","e","c","t"," ","m","a","n","a","g","e","r">>, <<"P","r","o","j","e","c","t"," ","M","a","n","a","g","e","m","e","n","t">>>>,
      <<<<"p","r","o","d","u","c","t"," ","m","a","n","a","g","e","r">>, <<"P","r","o","j","e","c","t"," ","M","a","n","a","g","e","m","e","n","t">>>>,
      <<<<"a","g","i","l","e"," ","c","o","a","c","h">>, <<"P","r","o","j","e","c","t"," ","M","a","n","a","g","e","m","e","n","t">>>>,
      <<<<"p","r","o","g","r","a","m"," ","m","a","n","a","g","e","r">>, <<"P","r","o","j","e","c","t"," ","M","a","n","a","g","e","m","e","n","t">>>>,
      <<<<"h","r">>, <<"H","u","m","a","n"," ","R","e","s","o","u","r","c","e","s">>>>,
      <<<<"h","u","m","a","n"," ","r","e","s","o","u","r","c","e","s">>, <<"H","u","m","a","n"," ","R","e","s","o","u","r","c","e","s">>>>,
      <<<<"r","e","c","r","u","i","t","e","r">>, <<"H","u","m","a","n"," ","R","e","s","o","u","r","c","e","s">>>>,
      <<<<"t","a","l","e","n","t">>, <<"H","u","m","a","n"," ","R","e","s","o","u","r","c","e","s">>>>,
      <<<<"f","i","n","a","n","c","e">>, <<"F","i","n","a","n","c","e">>>>,
      <<<<"a","c","c","o","u","n","t","a","n","t">>, <<"F","i","n","a","n","c","e">>>>,
      <<<<"a","c","c","o","u","n","t","i","n","g">>, <<"F","i","n","a","n","c","e">>>>,
      <<<<"m","a","r","k","e","t","i","n","g">>, <<"M","a","r","k","e","t","i","n","g">>>>,
      <<<<"s","a","l","e","s">>, <<"S","a","l","e","s">>>>,
      <<<<"b","u","s","i","n","e","s","s"," ","d","e","v","e","l","o","p","m","e","n","t">>, <<"S","a","l","e","s">>>>,
      <<<<"s","u","p","p","o","r","t">>, <<"C","u","s","t","o","m","e","r"," ","S","u","p","p","o","r","t">>>>,
      <<<<"c","u","s","t","o","m","e","r"," ","s","e","r","v","i","c","e">>, <<"C","u","s","t","o","m","e","r"," ","S","u","p","p","o","r","t">>>> >>
COUNTRY_LANGUAGES ==
    <<

      <<<<"i","n","d","i","a">>, List(<<Str(<<"E","n","g","l","i","s","h">>), Str(<<"H","i","n","d","i">>)>>)>>,
      <<<<"u","s","a">>, List(<<Str(<<"E","n","g","l","i","s","h">>)>>)>>,
      <<<<"u","n","i","t","e","d"," ","s","t","a","t","e","s">>, List(<<Str(<<"E","n","g","l","i","s","h">>)>>)>>,
      <<<<"u","k">>, List(<<Str(<<"E","n","g","l","i","s","h">>)>>)>>,
      <<<<"u","n","i","t","e","d"," ","k","i","n","g","d","o","m">>, List(<<Str(<<"E","n","g","l","i","s","h">>)>>)>>,
      <<<<"c","a","n","a","d","a">>, List(<<Str(<<"E","n","g","l","i","s","h">>), Str(<<"F","r","e","n","c","h">>)>>)>>,
      <<<<"g","e","r","m","a","n","y">>, List(<<Str(<<"G","e","r","m","a","n">>), Str(<<"E","n","g","l","i","s","h">>)>>)>>,
      <<<<"f","r","a","n","c","e">>, List(<<Str(<<"F","r","e","n","c","h">>), Str(<<"E","n","g","l","i","s","h">>)>>)>>,
      <<<<"s","p","a","i","n">>, List(<<Str(<<"S","p","a","n","i","s","h">>), Str(<<"E","n","g","l","i","s","h">>)>>)>>,
      <<<<"c","h","i","n","a">>, List(<<Str(<<"C","h","i","n","e","s","e">>), Str(<<"E","n","g","l","i","s","h">>)>>)>>,
      <<<<"j","a","p","a","n">>, List(<<Str(<<"J","a","p","a","n","e","s","e">>), Str(<<"E","n","g","l","i","s","h">>)>>)>>,
      <<<<"b","r","a","z","i","l">>, List(<<Str(<<"P","o","r","t","u","g","u","e","s","e">>), Str(<<"E","n","g","l","i","s","h">>)>>)>>,
      <<<<"m","e","x","i","c","o">>, List(<<Str(<<"S","p","a","n","i","s","h">>), Str(<<"E","n","g","l","i","s","h">>)>>)>>,
      <<<<"r","u","s","s","i","a">>, List(<<Str(<<"R","u","s","s","i","a","n">>), Str(<<"E","n","g","l","i","s","h">>)>>)>>,
      <<<<"i","t","a","l","y">>, List(<<Str(<<"I","t","a","l","i","a","n">>), Str(<<"E","n","g","l","i","s","h">>)>>)>>,
      <<<<"a","u","s","t","r","a","l","i","a">>, List(<<Str(<<"E","n","g","l","i","s","h">>)>>)>> >>

\* The place of the first key of an ordered table that occurs in the text, or 0.
FirstRule(table, text) ==
    LET hits == {i \in 1..Len(table) : Contains(table[i][1], text)}
    IN IF hits = {} THEN 0 ELSE Min(hits)

\* The entries of a list of dicts that have one of two keys filled.
FilledEntries(entries, key1, key2) ==
    SelectSeq(entries,
              LAMBDA e : IsDict(e) /\ (Truthy(DictGet(e, key1)) \/ Truthy(DictGet(e, key2))))

\* post_process_extraction, the fallbacks: email and phone from raw_text.
FallbackPhone(parsed, raw_text) ==
    IF ~Truthy(DictGet(parsed, "phone")) /\ Truthy(raw_text)
       /\ Truthy(extract_phone_from_text(raw_text.v))
    THEN DictSet(parsed, "phone", extract_phone_from_text(raw_text.v)) ELSE parsed
FallbackContact(parsed, raw_text) ==
    IF ~Truthy(DictGet(parsed, "email")) /\ Truthy(raw_text)
       /\ Truthy(extract_email_from_text(raw_text.v))
    THEN FallbackPhone(DictSet(parsed, "email", extract_email_from_text(raw_text.v)), raw_text)
    ELSE FallbackPhone(parsed, raw_text)

\* post_process_extraction, the language fixes.
FixLanguages(parsed) ==
    LET languages == DictGet(parsed, "languages")
        spoken_languages ==
            SelectSeq(languages.v,
                      LAMBDA lang : Truthy(lang) /\ Strip(Lower(PyStr(lang))) \notin PROGRAMMING_LANGUAGES)
        p1 == IF HasKey(parsed, "languages") /\ Truthy(languages) /\ IsList(languages)
              THEN DictSet(parsed, "languages",
                           IF spoken_languages # <<>> THEN List(spoken_languages) ELSE None)
              ELSE parsed
        rule == FirstRule(COUNTRY_LANGUAGES, Strip(Lower(PyStr(DictGet(p1, "country")))))
    IN IF ~Truthy(DictGet(p1, "languages")) /\ Truthy(DictGet(p1, "country")) /\ rule # 0
       THEN DictSet(p1, "languages", COUNTRY_LANGUAGES[rule][2]) ELSE p1

\* post_process_extraction, the department inference.
InferDepartment(parsed) ==
    LET rule == FirstRule(DEPARTMENT_RULES, Lower(PyStr(DictGet(parsed, "position"))))
        p1 == IF ~Truthy(DictGet(parsed, "department")) /\ Truthy(DictGet(parsed, "position"))
                 /\ rule # 0
              THEN DictSet(parsed, "department", Str(DEPARTMENT_RULES[rule][2])) ELSE parsed
        work_exp == DictGet(p1, "work_experience")
        recent_job == work_exp.v[1]
        role == IF Truthy(DictGet(recent_job, "role")) THEN DictGet(recent_job, "role")
                ELSE IF Truthy(DictGet(recent_job, "position")) THEN DictGet(recent_job, "position")
                ELSE IF Truthy(DictGet(recent_job, "title")) THEN DictGet(recent_job, "title")
                ELSE Str(<<>>)
        job_rule == FirstRule(DEPARTMENT_RULES, Lower(PyStr(role)))
    IN IF ~Truthy(DictGet(p1, "department")) /\ Truthy(work_exp) /\ IsList(work_exp)
          /\ IsDict(recent_job) /\ job_rule # 0
       THEN DictSet(p1, "department", Str(DEPARTMENT_RULES[job_rule][2])) ELSE p1

\* post_process_extraction, the normalisation of skills, jobs and education.
NormalizeLists(parsed) ==
    LET skills == DictGet(parsed, "technical_skills")
        p1 == IF ~HasKey(parsed, "technical_skills") THEN parsed
              ELSE IF IsStr(skills) THEN DictSet(parsed, "technical_skills", List(SplitByComma(skills.v)))
              ELSE IF ~IsList(skills) THEN DictSet(parsed, "technical_skills", List(<<>>))
              ELSE parsed
        exp == DictGet(p1, "work_experience")
        p2 == IF HasKey(p1, "work_experience") /\ Truthy(exp) /\ IsList(exp)
              THEN DictSet(p1, "work_experience", List(FilledEntries(exp.v, "company", "role")))
              ELSE p1
        edu == DictGet(p2, "education")
    IN IF HasKey(p2, "education") /\ Truthy(edu) /\ IsList(edu)
       THEN DictSet(p2, "education", List(FilledEntries(edu.v, "degree", "institution")))
       ELSE p2

\* post_process_extraction, the last loop: the null strings become None.
NullStrings == {SNull, SNone, SNA, <<"n", "/", "a">>, <<>>}
RemoveNullStrings(parsed) ==
    [t |-> "dict",
     v |-> [key \in DOMAIN parsed.v |->
              IF IsStr(parsed.v[key]) /\ parsed.v[key].v \in NullStrings THEN None
              ELSE parsed.v[key]]]

\* post_process_extraction(parsed, raw_text)
post_process_extraction(parsed, raw_text) ==
    IF ~IsDict(parsed) THEN parsed
    ELSE RemoveNullStrings(NormalizeLists(InferDepartment(FixLanguages(
             FallbackContact(parsed, raw_text)))))

\* The answer of one strategy of parse_llm_json: json.loads of its text, when
\* it has a text.
Strategy(text) == IF Truthy(text) THEN json_loads(text.v) ELSE JSONDecodeError

\* The first of the three answers that is parsed.
FirstParsed(direct, cleaned, regex) ==
    IF direct.ok THEN direct
    ELSE IF cleaned.ok THEN cleaned
    ELSE regex

\* parse_llm_json: what the first strategy that parses has loaded.
LoadedJson(response) ==
    FirstParsed(json_loads(response), Strategy(clean_json_response(response)),
                Strategy(BraceSpan(response)))

\* parse_llm_json: the return of the strategy that parsed, or None.
Recovered(loaded, raw_text) ==
    IF loaded.ok THEN post_process_extraction(loaded.v, raw_text) ELSE None

\* parse_llm_json(response, raw_text)
parse_llm_json(response, raw_text) ==
    IF response = <<>> THEN None ELSE Recovered(LoadedJson(response), raw_text)

(***************************************************************************)
(* Recovery: one answer of the LLM and the resume text it was asked about  *)
(* are drawn, and parse_llm_json recovers the candidate from them.         *)
(***************************************************************************)
\* The JSON text of a candidate, from the JSON literals of its email and its
\* phone; the empty text stands for a key that is left out.
CandidateText(email, phone) ==
    <<"{","\"","n","a","m","e","\"",":"," ","\"","J","o","\"">>
    \o (IF email = <<>> THEN <<>> ELSE <<","," ","\"","e","m","a","i","l","\"",":"," ">> \o email)
    \o (IF phone = <<>> THEN <<>> ELSE <<","," ","\"","p","h","o","n","e","\"",":"," ">> \o phone)
    \o <<"}">>
EmailLiterals ==
    {<<>>, <<"n","u","l","l">>, <<"\"","N","/","A","\"">>, <<"\"","\"">>, <<"\"","n","u","l","l","\"">>, <<"\"","N","o","n","e","\"">>, <<"\"","j","o","@","x",".","c","o","\"">>}
PhoneLiterals == {<<>>, <<"n","u","l","l">>, <<"\"","N","/","A","\"">>, <<"\"","5","5","5","-","1","2","3","-","4","5","6","7","\"">>}
\* An answer as it is, inside a fence, and inside a sentence.
Wrappings(text) ==
    {text, Fence \o <<"j","s","o","n","\n">> \o text \o <<"\n">> \o Fence, <<"H","e","r","e"," ","i","t"," ","i","s",":"," ">> \o text \o <<" ","D","o","n","e",".">>}
CandidateResponses ==
    UNION {Wrappings(CandidateText(email, phone)) : email \in EmailLiterals, phone \in PhoneLiterals}
OtherResponses ==
    {<<>>,
     <<"[","1",","," ","2","]">>,
     <<"n","u","l","l">>,
     <<"5">>,
     <<"n","o","t"," ","j","s","o","n">>,
     <<"{","\"","n","a","m","e","\"",":"," ","\"","J","o","\"",",","}">>,
     <<"}"," ","{">>,
     <<"{","\"","l","a","n","g","u","a","g","e","s","\"",":"," ","[","\"","E","n","g","l","i","s","h","\"",","," ","\"","P","y","t","h","o","n","\"","]",","," ","\"","c","o","u","n","t","r","y","\"",":"," ","\"","I","n","d","i","a","\"","}">>,
     <<"{","\"","l","a","n","g","u","a","g","e","s","\"",":"," ","[","\"","P","y","t","h","o","n","\"","]",","," ","\"","c","o","u","n","t","r","y","\"",":"," ","\"","B","r","a","z","i","l","\"","}">>,
     <<"{","\"","p","o","s","i","t","i","o","n","\"",":"," ","\"","S","e","n","i","o","r"," ","S","o","f","t","w","a","r","e"," ","E","n","g","i","n","e","e","r","\"","}">>,
     <<"{","\"","p","o","s","i","t","i","o","n","\"",":"," ","\"","W","i","z","a","r","d","\"",","," ","\"","w","o","r","k","_","e","x","p","e","r","i","e","n","c","e","\"",":"," ","[","{","\"","t","i","t","l","e","\"",":"," ","\"","D","a","t","a"," ","S","c","i","e","n","t","i","s","t","\"","}",","," ","{","\"","x","\"",":"," ","1","}","]","}">>,
     <<"{","\"","t","e","c","h","n","i","c","a","l","_","s","k","i","l","l","s","\"",":"," ","\"","a",","," ","b",",",","," ","c","\"",","," ","\"","e","d","u","c","a","t","i","o","n","\"",":"," ","[","{","\"","d","e","g","r","e","e","\"",":"," ","\"","B","S","\"","}",","," ","{","\"","x","\"",":"," ","1","}","]","}">>,
     <<"{","\"","t","e","c","h","n","i","c","a","l","_","s","k","i","l","l","s","\"",":"," ","n","u","l","l","}">>}
TContact == <<"J","o","h","n"," ","S","m","i","t","h","\n","j","o","h","n","@","x",".","c","o","\n","+","1","-","5","5","5","-","1","2","3","-","4","5","6","7">>
RawTexts == {None, Str(TContact), Str(TAnnResume)}

ParseLlmJson ==
    /\ call.op = "answered"
    /\ call' = [call EXCEPT !.op = "recovered"]
    /\ ret' = parse_llm_json(call.response, call.raw_text)
    /\ UNCHANGED db

InitRecovery ==
    /\ db = <<>>
    /\ call \in {[op |-> "answered", response |-> response, raw_text |-> raw_text] :
                   response \in CandidateResponses \cup OtherResponses, raw_text \in RawTexts}
    /\ ret = None
NextRecovery == ParseLlmJson
SpecRecovery == InitRecovery /\ [][NextRecovery]_vars

\* C5: parse_llm_json returns a mapping or null; it is null exactly when no
\* strategy yields parsable data, and any result that is not null is a mapping.
C5_MappingOrNull ==
    call.op = "recovered" =>
        /\ IsDict(ret) \/ IsNone(ret)
        /\ IsNone(ret) <=> (call.response = <<>> \/ ~LoadedJson(call.response).ok)

\* The candidate's field is missing, null or a sentinel string.
MissingOrSentinel(candidate, key) ==
    \/ IsNone(DictGet(candidate, key))
    \/ IsStr(DictGet(candidate, key)) /\ DictGet(candidate, key).v \in NullSentinels

\* The field of the result is the one found in the text, whenever the candidate
\* lacks it and the text has one.
RecoveredFrom(key, found) ==
    LET candidate == LoadedJson(call.response).v IN
    (IsDict(candidate) /\ MissingOrSentinel(candidate, key) /\ Truthy(call.raw_text)
        /\ ~IsNone(found))
    => DictGet(ret, key) = found

\* C6: when the candidate's email or phone is missing, null or a sentinel
\* string and the source text has one, the result carries the one recovered
\* from the source text.
C6_SentinelRecovered ==
    (call.op = "recovered" /\ call.response # <<>> /\ LoadedJson(call.response).ok) =>
        /\ RecoveredFrom("email", extract_email_from_text(call.raw_text.v))
        /\ RecoveredFrom("phone", extract_phone_from_text(call.raw_text.v))

(***************************************************************************)
(* services/validators.py: enforce_schema.  overall_confidence is a mean   *)
(* of hundredths, kept as a fraction in lowest terms.                      *)
(***************************************************************************)
\* The keys of EXTRACTION_SCHEMA, in their order, and the required ones.
EXTRACTION_SCHEMA ==
    <<"name", "email", "phone", "linkedin_url", "department", "position", "summary",
      "work_experience", "education", "technical_skills", "languages", "hobbies",
      "cocurricular_activities">>
RequiredFields == {"name"}

\* The validator of position: lambda x: ValidationResult(is_valid=True, value=x
\* if x and x not in ['null', 'None', ''] else None, confidence=0.8)
PositionValidator(x) ==
    Valid(IF Truthy(x) /\ ~(IsStr(x) /\ x.v \in {SNull, SNone, <<>>}) THEN x ELSE None, 80)

\* A field without validator (summary): null values are cleaned.
NoValidator(raw_value) ==
    IF IsNullLike(raw_value) THEN Valid(None, 0) ELSE Valid(raw_value, 70)

\* schema["validator"](raw_value) for the field, or the branch without validator.
SchemaResult(field_name, raw_value, order) ==
    CASE field_name = "name" -> validate_name(raw_value)
      [] field_name = "email" -> validate_email(raw_value)
      [] field_name = "phone" -> validate_phone(raw_value)
      [] field_name = "linkedin_url" -> validate_url(raw_value, "linkedin")
      [] field_name = "department" -> validate_department(raw_value, order)
      [] field_name = "position" -> PositionValidator(raw_value)
      [] field_name = "summary" -> NoValidator(raw_value)
      [] OTHER -> validate_array_field(raw_value, field_name)

\* [f"{field_name}: {e}" for e in messages], for the fields from k on.
RECURSIVE Prefixed(_, _, _)
Prefixed(results, kind, k) ==
    IF k > Len(EXTRACTION_SCHEMA) THEN <<>>
    ELSE LET field_name == EXTRACTION_SCHEMA[k]
             messages == results[field_name][kind]
         IN [i \in 1..Len(messages) |-> field_name \o ": " \o messages[i]]
            \o Prefixed(results, kind, k + 1)

RECURSIVE GCD(_, _)
GCD(a, b) == IF b = 0 THEN a ELSE GCD(b, a % b)
\* num / den as a fraction in lowest terms.
Ratio(num, den) == [num |-> num \div GCD(num, den), den |-> den \div GCD(num, den)]

RECURSIVE SumSeq(_)
SumSeq(seq) == IF seq = <<>> THEN 0 ELSE Head(seq) + SumSeq(Tail(seq))

\* field_confidences.values()
ConfidenceValues(field_confidences) ==
    LET fields == SelectSeq(EXTRACTION_SCHEMA, LAMBDA f : f \in DOMAIN field_confidences)
    IN [i \in 1..Len(fields) |-> field_confidences[fields[i]]]

\* A variant of the selection that keeps every confidence.
AllConfidences(values) == values
\* [c for c in field_confidences.values() if c > 0]
NonZeroConfidences(values) == SelectSeq(values, LAMBDA c : c > 0)

\* sum(non_zero_confidences) / len(non_zero_confidences) if non_zero_confidences else 0.0
OverallConfidence(field_confidences) ==
    LET non_zero_confidences == NonZeroConfidences(ConfidenceValues(field_confidences))
    IN IF non_zero_confidences # <<>>
       THEN Ratio(SumSeq(non_zero_confidences), Len(non_zero_confidences))
       ELSE Ratio(0, 1)

ExtractionResult(data, field_confidences, overall_confidence, validation_errors, validation_warnings) ==
    [data |-> data, field_confidences |-> field_confidences,
     overall_confidence |-> overall_confidence, validation_errors |-> validation_errors,
     validation_warnings |-> validation_warnings]

\* "Required field '...' is missing" for the required fields without a value.
RequiredErrors(results) ==
    LET required == SelectSeq(EXTRACTION_SCHEMA,
                              LAMBDA f : f \in RequiredFields /\ ~Truthy(results[f].value))
    IN [i \in 1..Len(required) |-> "Required field '" \o required[i] \o "' is missing"]

\* enforce_schema, after the loop over the schema: the result made of the
\* results of the validators.
SchemaOutcome(results) ==
    ExtractionResult(
        [t |-> "dict", v |-> [f \in DOMAIN results |-> results[f].value]],
        [f \in DOMAIN results |-> results[f].confidence],
        OverallConfidence([f \in DOMAIN results |-> results[f].confidence]),
        Prefixed(results, "errors", 1) \o RequiredErrors(results),
        Prefixed(results, "warnings", 1))

\* enforce_schema(data), where order is the order in which the set
\* VALID_DEPARTMENTS is iterated.
enforce_schema(data, order) ==
    IF ~IsDict(data)
    THEN ExtractionResult(Dict(<<>>), <<>>, Ratio(0, 1), <<"Input is not a dictionary">>, <<>>)
    ELSE SchemaOutcome([f \in {EXTRACTION_SCHEMA[k] : k \in 1..Len(EXTRACTION_SCHEMA)} |->
                          SchemaResult(f, DictGet(data, f), order)])

(***************************************************************************)
(* Schema enforcement: one extracted candidate is drawn and enforce_schema *)
(* validates it.                                                           *)
(***************************************************************************)
SchemaNames == {Absent, Str(<<"J","o","h","n"," ","S","m","i","t","h">>), Str(<<"j","o","h","n"," ","s","m","i","t","h">>)}
SchemaEmails == {Absent, Str(<<"j","o","@","x",".","c","o">>)}
SchemaPhones == {Absent, Str(<<"5","5","5","-","1","2","3","-","4","5","6","7">>)}
SchemaDepartments == {Absent, Str(<<"e">>)}
SchemaPositions == {Absent, Str(<<"D","e","v">>)}
SchemaSummaries == {None, Str(<<"S","h","o","r","t">>)}
SchemaSkills == {Absent, Str(<<"a",","," ","b">>)}
SchemaInputs ==
    {Dict([name |-> name, email |-> email, phone |-> phone, department |-> department,
           position |-> position, summary |-> summary, technical_skills |-> skills]) :
        name \in SchemaNames, email \in SchemaEmails, phone \in SchemaPhones,
        department \in SchemaDepartments, position \in SchemaPositions,
        summary \in SchemaSummaries, skills \in SchemaSkills}
    \cup {None, List(<<Num(1)>>)}

EnforceSchema ==
    /\ call.op = "parsed"
    /\ \E order \in DepartmentOrders :
           ret' = enforce_schema(call.data, order)
    /\ call' = [call EXCEPT !.op = "enforced"]
    /\ UNCHANGED db

InitSchema ==
    /\ db = <<>>
    /\ call \in {[op |-> "parsed", data |-> data] : data \in SchemaInputs}
    /\ ret = None
NextSchema == EnforceSchema
SpecSchema == InitSchema /\ [][NextSchema]_vars

\* The sum of the confidences of a set of fields.
RECURSIVE ConfidenceSum(_, _)
ConfidenceSum(field_confidences, fields) ==
    IF fields = {} THEN 0
    ELSE LET f == CHOOSE x \in fields : TRUE
         IN field_confidences[f] + ConfidenceSum(field_confidences, fields \ {f})

\* overall is the arithmetic mean of the confidences of the fields, and zero
\* when there is no field.
IsMeanOf(overall, field_confidences, fields) ==
    IF fields = {} THEN overall.num = 0
    ELSE overall.num * Cardinality(fields) = overall.den * ConfidenceSum(field_confidences, fields)

PositiveFields(field_confidences) ==
    {f \in DOMAIN field_confidences : field_confidences[f] > 0}

\* C7: overall_confidence is the arithmetic mean of exactly the field
\* confidences that are greater than 0, and 0 when none is greater than 0.
C7_MeanOfPositiveConfidences ==
    call.op = "enforced" =>
        IsMeanOf(ret.overall_confidence, ret.field_confidences,
                 PositiveFields(ret.field_confidences))

\* Some confidence is 0 and the positive ones are not all the same.
C7_Witness ==
    /\ call.op = "enforced"
    /\ \E f \in DOMAIN ret.field_confidences : ret.field_confidences[f] = 0
    /\ \E f, g \in PositiveFields(ret.field_confidences) :
           ret.field_confidences[f] # ret.field_confidences[g]

\* The schema fields that the input lacks: no key, or a null value.
AbsentFields(data) ==
    {EXTRACTION_SCHEMA[k] : k \in {i \in 1..Len(EXTRACTION_SCHEMA) :
                                      IsNone(DictGet(data, EXTRACTION_SCHEMA[i]))}}

\* C8: a schema field that the input lacks has confidence 0, and
\* overall_confidence is the mean computed over the fields the input has.
C8_AbsentContributesNothing ==
    (call.op = "enforced" /\ IsDict(call.data)) =>
        /\ \A f \in AbsentFields(call.data) : ret.field_confidences[f] = 0
        /\ IsMeanOf(ret.overall_confidence, ret.field_confidences,
                    PositiveFields(ret.field_confidences) \ AbsentFields(call.data))

(***************************************************************************)
(* Resolver: the order of the candidates and the resolution by identifier  *)
(***************************************************************************)
\* C11: the candidates of one resolution by name are sorted by score, highest
\* first, and candidates of the same score are in the order of the table.
C11_SortedStable ==
    ByNameCall =>
        \A k, l \in 1..Len(ret.matches) :
            k < l =>
                /\ ret.matches[k].score >= ret.matches[l].score
                /\ ret.matches[k].score = ret.matches[l].score
                       => ret.matches[k].employee.id < ret.matches[l].employee.id

\* The sort has moved a later row of the table in front of an earlier one.
C11_Witness ==
    /\ ByNameCall
    /\ Len(ret.matches) = 2
    /\ ret.matches[1].score > ret.matches[2].score
    /\ ret.matches[1].employee.id > ret.matches[2].employee.id

\* The last operation resolved a reference that carries an identifier.
ByIdCall == call.op = "resolve" /\ call.emp_id # None

SearchInput(fn, arg) == [op |-> "input", fn |-> fn, arg |-> arg]

\* The drawn call is a call of fn, and fn returns result.
Applied(fn, result) ==
    /\ call.op = "input"
    /\ call.fn = fn
    /\ call' = [call EXCEPT !.op = "applied"]
    /\ ret' = result
    /\ UNCHANGED db

\* The last operation was a call of fn.
AppliedCall(fn) == call.op = "applied" /\ call.fn = fn

\* Names: an onset and a rest, as in Smith, Smyth, Robert, Rupert, Pfister, Lloyd.
NameOnsets == {<<"S","m">>, <<"R">>, <<"P","f">>, <<"L","l">>, <<"T">>, <<"A">>, <<"A","s","h","c","r">>, <<"J","a","c","k">>}
NameRests == {<<"i","t","h">>, <<"y","t","h">>, <<"o","b","e","r","t">>, <<"u","p","e","r","t">>, <<"i","s","t","e","r">>, <<"o","y","d">>, <<"a","f","t">>, <<"s","o","n">>}
SoundexInputs ==
    {onset \o rest : onset \in NameOnsets, rest \in NameRests} \cup {<<>>, <<" ","l","e","e"," ">>, <<"O","'","N","e","i","l">>}

NormalizeInputs ==
    {<<>>, <<"J","o","h","n"," ","S","m","i","t","h">>, <<"J","O","H","N"," "," ","S","M","I","T","H">>, <<"D","r","."," ","J","o","h","n"," ","S","m","i","t","h">>, <<"M","a","r","y","-","J","a","n","e">>, <<"m","a","r","y","_","j","a","n","e">>,
     <<"M","a","r","y","-","-","J","a","n","e"," ","L","e","e">>, <<" ","J","o","h","n"," ">>, <<"J","o","h","n","-">>, <<"-","J","o","h","n">>, <<"_","j","o","h","n","_">>, <<"a"," ","-"," ","b">>, <<"J","r",".">>,
     <<"D","e","v","\t","R","a","j">>, <<"D","e","v"," ","-","R","a","j">>, <<"J", "o", "s", "e_acute">>, <<"-">>, <<"A","n","n","\n">>,
     <<"S","m","i","t","h","-","J","r">>, <<"d","r","_","j","o","h","n">>}

Soundex == Applied("soundex", soundex(call.arg))
NormalizeName == Applied("normalize_name", normalize_name(call.arg))

\* C13: soundex(name) is the first letter followed by the digit codes of the
\* following letters, uncoded letters skipped, directly adjacent equal codes
\* collapsed, padded or cut to four characters ("Smith" and "Smyth" are S530).
C13_SoundexCodes == AppliedCall("soundex") => ret = DocumentedSoundex(call.arg)

\* C14: the output of normalize_name is lowercase, has no hyphen and no
\* underscore, no two whitespace characters in a row, and no whitespace at
\* its ends.
C14_Canonical ==
    AppliedCall("normalize_name") =>
        /\ ret = Lower(ret)
        /\ \A i \in 1..Len(ret) : ret[i] \notin {"-", "_"}
        /\ \A i \in 1..(Len(ret) - 1) : ~(ret[i] \in Whitespace /\ ret[i + 1] \in Whitespace)
        /\ ret # <<>> => (ret[1] \notin Whitespace /\ ret[Len(ret)] \notin Whitespace)

\* C28: normalize_name is idempotent: normalizing a normalized name gives the
\* same name again.
C28_Idempotent ==
    AppliedCall("normalize_name") => normalize_name(ret) = ret

\* The names of the model whose normal form is not a fixed point begin or end
\* with a hyphen or an underscore, or join an honorific to the name with one.
C28_IdempotentOnPlainNames ==
    (AppliedCall("normalize_name") /\ \A i \in 1..Len(call.arg) : call.arg[i] \notin {"-", "_"})
        => normalize_name(ret) = ret

(***************************************************************************)
(* Ensemble merging: validators.py ensemble_extract and                    *)
(* extraction_utils.py merge_ensemble_results.  A dict that is an item of  *)
(* a list keeps the order of its keys: its value is a sequence of          *)
(* <<key, value>> pairs, the keys being texts.                             *)
(***************************************************************************)
OrderedDict(pairs) == [t |-> "odict", v |-> pairs]
IsOrderedDict(x) == x.t = "odict"

\* a == b of Python for the values of the model: dicts are equal when they
\* hold the same pairs, in whatever order.
PyEq(a, b) ==
    IF a.t # b.t THEN FALSE
    ELSE IF IsOrderedDict(a) THEN Range(a.v) = Range(b.v)
    ELSE a = b

\* sep.join(texts)
RECURSIVE Join(_, _)
Join(texts, sep) ==
    IF texts = <<>> THEN <<>>
    ELSE IF Len(texts) = 1 THEN texts[1]
    ELSE texts[1] \o sep \o Join(Tail(texts), sep)

\* json.dumps and repr of a scalar: texts without quotes or backslashes.
ScalarText(x, quote) ==
    IF IsStr(x) THEN <<quote>> \o x.v \o <<quote>>
    ELSE IF IsNone(x) THEN (IF quote = "\"" THEN SNull ELSE SNone)
    ELSE PyStr(x)

\* The text of a dict whose values are scalars, with the given quote.
DictText(x, quote) ==
    <<"{">> \o Join([i \in 1..Len(x.v) |->
                       <<quote>> \o x.v[i][1] \o <<quote, ":", " ">> \o ScalarText(x.v[i][2], quote)],
                    <<",", " ">>)
            \o <<"}">>

\* json.dumps(item) of a dict item
json_dumps(item) == DictText(item, "\"")

\* str(value) of any value of the model: a list or a dict prints the repr of
\* its parts.
ItemRepr(x) == IF IsOrderedDict(x) THEN DictText(x, "'") ELSE ScalarText(x, "'")
PyStrAny(value) ==
    IF IsList(value)
    THEN <<"[">> \o Join([i \in 1..Len(value.v) |-> ItemRepr(value.v[i])], <<",", " ">>) \o <<"]">>
    ELSE IF IsOrderedDict(value) THEN DictText(value, "'")
    ELSE PyStr(value)

\* item_key = json.dumps(item) if isinstance(item, dict) else str(item)
ItemKey(item) == IF IsOrderedDict(item) THEN json_dumps(item) ELSE PyStrAny(item)

\* The items that list.extend(value) appends: the items of a list, the
\* characters of a str, the keys of a dict.
ExtendItems(value) ==
    IF IsList(value) THEN value.v
    ELSE IF IsStr(value) THEN [i \in 1..Len(value.v) |-> Str(<<value.v[i]>>)]
    ELSE [i \in 1..Len(value.v) |-> Str(value.v[i][1])]

\* The concatenation of a sequence of sequences.
RECURSIVE Flatten(_)
Flatten(seqs) == IF seqs = <<>> THEN <<>> ELSE Head(seqs) \o Flatten(Tail(seqs))

\* The places of a sequence of keys that hold a key for the first time.
FirstSeen(keys) == {i \in 1..Len(keys) : \A j \in 1..(i - 1) : keys[j] # keys[i]}

\* The elements of a sequence at a set of places, in order.
AtPlaces(seq, places) ==
    LET kept == SelectSeq([i \in 1..Len(seq) |-> i], LAMBDA i : i \in places)
    IN [k \in 1..Len(kept) |-> seq[kept[k]]]

\* unique: the items whose item_key was not seen before.
UniqueItems(all_items) ==
    AtPlaces(all_items, FirstSeen([i \in 1..Len(all_items) |-> ItemKey(all_items[i])]))

\* all_fields: the keys of the passes that are dicts.
AllFields(passes) == UNION {DOMAIN passes[i].v : i \in {j \in 1..Len(passes) : IsDict(passes[j])}}

\* The places of the passes that are dicts with a value for the field that is
\* not None and not in ['null', 'None', '', 'N/A'].
ValuedPasses(passes, field) ==
    SelectSeq([i \in 1..Len(passes) |-> i],
              LAMBDA i : IsDict(passes[i]) /\ ~IsNullLike(DictGet(passes[i], field)))

\* The cumulative weight of a key: the sum of the weights at its places.
KeyWeight(keys, weights, key) ==
    SumSeq(AtPlaces(weights, {k \in 1..Len(keys) : keys[k] = key}))

\* A variant of the choice that takes the last of the heaviest keys.
LastBestPlace(keys, weights) ==
    -Min({-i : i \in {k \in FirstSeen(keys) :
           \A j \in FirstSeen(keys) : KeyWeight(keys, weights, keys[k]) >= KeyWeight(keys, weights, keys[j])}})

\* max(value_weights.items(), key=weight) over a dict filled in the order of
\* the values: the place of the first key, in the order in which the keys were
\* first seen, that no key outweighs.
BestPlace(keys, weights) ==
    Min({i \in FirstSeen(keys) :
           \A j \in FirstSeen(keys) : KeyWeight(keys, weights, keys[i]) >= KeyWeight(keys, weights, keys[j])})

\* ensemble_extract, one field with values: the union of arrays, or the vote
\* on scalars.  The weights are the numerators of the normalized weights
\* w / total_weight.
CombineField(values, weights) ==
    IF IsList(values[1])
    THEN IF UniqueItems(Flatten([k \in 1..Len(values) |-> ExtendItems(values[k])])) # <<>>
         THEN List(UniqueItems(Flatten([k \in 1..Len(values) |-> ExtendItems(values[k])])))
         ELSE None
    ELSE values[BestPlace([k \in 1..Len(values) |-> PyStrAny(values[k])], weights)]

\* ensemble_extract, the body of the loop over all_fields.
CombinedField(extractions, weights, field, valued) ==
    IF valued = <<>> THEN None
    ELSE CombineField([k \in 1..Len(valued) |-> DictGet(extractions[valued[k]], field)],
                      [k \in 1..Len(valued) |-> weights[valued[k]]])

\* ensemble_extract(extractions, weights); weights is None or a list of numbers.
ensemble_extract(extractions, weights) ==
    IF extractions = <<>> THEN Dict(<<>>)
    ELSE IF Len(extractions) = 1 THEN extractions[1]
    ELSE [t |-> "dict",
          v |-> [field \in AllFields(extractions) |->
                   CombinedField(extractions,
                                 IF IsNone(weights) THEN [i \in 1..Len(extractions) |-> 1]
                                 ELSE weights.v,
                                 field, ValuedPasses(extractions, field))]]

\* merge_ensemble_results, one field with values: the items of the values that
\* are lists, or the majority of the lowercased scalars.
MergeField(values) ==
    IF IsList(values[1])
    THEN IF UniqueItems(Flatten([k \in 1..Len(values) |->
                                   IF IsList(values[k]) THEN values[k].v ELSE <<>>])) # <<>>
         THEN List(UniqueItems(Flatten([k \in 1..Len(values) |->
                                          IF IsList(values[k]) THEN values[k].v ELSE <<>>])))
         ELSE None
    ELSE values[BestPlace([k \in 1..Len(values) |-> Lower(PyStrAny(values[k]))],
                          [k \in 1..Len(values) |-> 1])]

\* merge_ensemble_results, the body of the loop over all_fields.
MergedField(valid_results, field, valued) ==
    IF valued = <<>> THEN None
    ELSE MergeField([k \in 1..Len(valued) |-> DictGet(valid_results[valued[k]], field)])

\* merge_ensemble_results, once the results that are not filled dicts are dropped.
MergeValid(valid_results) ==
    IF valid_results = <<>> THEN Dict(<<>>)
    ELSE [t |-> "dict",
          v |-> [field \in AllFields(valid_results) |->
                   MergedField(valid_results, field, ValuedPasses(valid_results, field))]]

\* merge_ensemble_results(results)
merge_ensemble_results(results) ==
    IF results = <<>> THEN Dict(<<>>)
    ELSE IF Len(results) = 1 THEN results[1]
    ELSE MergeValid(SelectSeq(results, LAMBDA r : IsDict(r) /\ Truthy(r)))

(***************************************************************************)
(* Ensemble: the records of two or three extraction passes are drawn and   *)
(* merged.                                                                 *)
(***************************************************************************)
JobXDev == OrderedDict(<< <<<<"c","o","m","p","a","n","y">>, Str(<<"X">>)>>, <<<<"r","o","l","e">>, Str(<<"D","e","v">>)>> >>)
JobDevX == OrderedDict(<< <<<<"r","o","l","e">>, Str(<<"D","e","v">>)>>, <<<<"c","o","m","p","a","n","y">>, Str(<<"X">>)>> >>)
PassNames == {Str(<<"A">>), Str(<<"B">>), Str(<<"a">>), Str(SNA), Num(1)}
PassLists ==
    {List(<<Str(<<"P","y","t","h","o","n">>)>>), List(<<Str(<<"J","a","v","a">>), Str(<<"P","y","t","h","o","n">>)>>),
     List(<<Num(1)>>), List(<<Str(<<"1">>)>>), Str(<<"J","a","v","a">>),
     List(<<JobXDev>>), List(<<JobDevX>>)}
PassRecords ==
    {Dict([name |-> name]) : name \in PassNames}
    \cup {Dict([skills |-> skills]) : skills \in PassLists}
    \cup {None, Dict([name |-> Str(<<"A">>), skills |-> List(<<Str(<<"P","y","t","h","o","n">>)>>)])}
PassSequences ==
    {<<p, q>> : p, q \in PassRecords} \cup {<<p, q, r>> : p, q, r \in PassRecords}
PassWeights == {None, List(<<2, 1, 1>>), List(<<1, 1, 2>>)}

EnsembleExtract ==
    /\ call.op = "passes"
    /\ call.fn = "ensemble_extract"
    /\ call' = [call EXCEPT !.op = "merged"]
    /\ ret' = ensemble_extract(call.extractions, call.weights)
    /\ UNCHANGED db

MergeEnsembleResults ==
    /\ call.op = "passes"
    /\ call.fn = "merge_ensemble_results"
    /\ call' = [call EXCEPT !.op = "merged"]
    /\ ret' = merge_ensemble_results(call.extractions)
    /\ UNCHANGED db

InitEnsemble ==
    /\ db = <<>>
    /\ call \in {[op |-> "passes", fn |-> "ensemble_extract", extractions |-> passes,
                  weights |-> weights] : passes \in PassSequences, weights \in PassWeights}
               \cup {[op |-> "passes", fn |-> "merge_ensemble_results", extractions |-> passes,
                      weights |-> None] : passes \in PassSequences}
    /\ ret = None
NextEnsemble ==
    \/ EnsembleExtract
    \/ MergeEnsembleResults
SpecEnsemble == InitEnsemble /\ [][NextEnsemble]_vars

\* The passes of the last call that have a value for the field, and the value.
Valued(field) ==
    {i \in 1..Len(call.extractions) :
        IsDict(call.extractions[i]) /\ ~IsNullLike(DictGet(call.extractions[i], field))}
PassValue(i, field) == DictGet(call.extractions[i], field)

\* The items of the field over the passes, passes in input order and items in
\* list order.
PassItems(field) ==
    Flatten([i \in 1..Len(call.extractions) |->
               IF i \in Valued(field) /\ IsList(PassValue(i, field))
               THEN PassValue(i, field).v ELSE <<>>])

\* The items of a sequence without the ones that equal an earlier item.
Deduplicated(items) ==
    AtPlaces(items, {i \in 1..Len(items) : \A j \in 1..(i - 1) : ~PyEq(items[j], items[i])})

\* C15: a sequence-valued field of the merged record is the union of the items
\* of that field over the passes, without structural duplicates and in
\* first-seen order, so that every merged item is an item of some pass.
C15_UnionOfItems ==
    (call.op = "merged" /\ Len(call.extractions) >= 2) =>
        \A field \in DOMAIN ret.v :
            IsList(ret.v[field]) =>
                /\ ret.v[field].v = Deduplicated(PassItems(field))
                /\ \A k \in 1..Len(ret.v[field].v) :
                       \E n \in 1..Len(PassItems(field)) :
                           PyEq(ret.v[field].v[k], PassItems(field)[n])

\* The weight of a pass of the last call: 1 when no weights are given.  The
\* normalized weight is this number over the sum of the weights.
PassWeight(i) == IF IsNone(call.weights) THEN 1 ELSE call.weights.v[i]

\* The passes whose value for the field is stringified as the value of pass p.
SameValue(field, p) ==
    {i \in Valued(field) : PyStrAny(PassValue(i, field)) = PyStrAny(PassValue(p, field))}

RECURSIVE WeightOfPasses(_)
WeightOfPasses(passes) ==
    IF passes = {} THEN 0
    ELSE LET i == CHOOSE x \in passes : TRUE
         IN PassWeight(i) + WeightOfPasses(passes \ {i})

\* The cumulative weight of the value of pass p.
CumulativeWeight(field, p) == WeightOfPasses(SameValue(field, p))

\* Pass p holds the winner of the vote: the first occurrence of a value that has
\* the highest cumulative weight, and among the values of that weight the one
\* that occurs first.
Winner(field, p) ==
    /\ p \in Valued(field)
    /\ \A q \in Valued(field) :
           \/ CumulativeWeight(field, p) > CumulativeWeight(field, q)
           \/ /\ CumulativeWeight(field, p) = CumulativeWeight(field, q)
              /\ \A i \in SameValue(field, q) : p <= i

\* The field is a scalar field of the last call: it has values, none a list.
ScalarField(field) ==
    /\ Valued(field) # {}
    /\ \A i \in Valued(field) : ~IsList(PassValue(i, field))

FindText(s, sep, i) ==
    LET places == {p \in i..(Len(s) - Len(sep) + 1) : SubSeq(s, p, p + Len(sep) - 1) = sep}
    IN IF places = {} THEN 0 ELSE Min(places)

\* str.split(sep) for a separator of several characters.
RECURSIVE SplitText(_, _, _)
SplitText(s, sep, i) ==
    IF FindText(s, sep, i) = 0 THEN <<SubSeq(s, i, Len(s))>>
    ELSE <<SubSeq(s, i, FindText(s, sep, i) - 1)>>
             \o SplitText(s, sep, FindText(s, sep, i) + Len(sep))

\* r'\bMARKER\s+(\w+)'
NotPattern(marker) == <<WordB>> \o LitSeq(marker) \o <<ClsMin(Whitespace, 1), ClsMin(WordChars, 1)>>
not_patterns == <<<<"n","o","t">>, <<"e","x","c","e","p","t">>, <<"e","x","c","l","u","d","i","n","g">>, <<"w","i","t","h","o","u","t">>>>

\* re.findall(pattern, s) for a pattern that ends in its one group (\w+):
\* the text of the group of every match, in order.
RECURSIVE FindAllGroups(_, _, _, _)
FindAllGroups(items, s, i, lead) ==
    IF SearchFrom(items, s, i) = 0 THEN <<>>
    ELSE <<SubSeq(s, MatchFrom(SubSeq(items, 1, lead), 1, s, SearchFrom(items, s, i), FALSE),
                  MatchFrom(items, 1, s, SearchFrom(items, s, i), FALSE) - 1)>>
             \o FindAllGroups(items, s, MatchFrom(items, 1, s, SearchFrom(items, s, i), FALSE), lead)

\* re.sub(pattern, '', s): the text without the matches of the pattern.
RECURSIVE ReSubEmpty(_, _, _)
ReSubEmpty(items, s, i) ==
    IF SearchFrom(items, s, i) = 0 THEN SubSeq(s, i, Len(s))
    ELSE SubSeq(s, i, SearchFrom(items, s, i) - 1)
             \o ReSubEmpty(items, s, MatchFrom(items, 1, s, SearchFrom(items, s, i), FALSE))

\* The loop over not_patterns: the words collected by the first k patterns,
\* and the text they leave.
RECURSIVE TextAfterNot(_, _)
TextAfterNot(query_lower, k) ==
    IF k = 0 THEN query_lower
    ELSE ReSubEmpty(NotPattern(not_patterns[k]), TextAfterNot(query_lower, k - 1), 1)

RECURSIVE MustNot(_, _)
MustNot(query_lower, k) ==
    IF k = 0 THEN {}
    ELSE MustNot(query_lower, k - 1)
             \cup Range(FindAllGroups(NotPattern(not_patterns[k]), TextAfterNot(query_lower, k - 1),
                                      1, Len(NotPattern(not_patterns[k])) - 1))

\* [t.strip() for t in part.split() if len(t.strip()) > 2]
LongTerms(part) == {t \in Range(Split(part)) : Len(t) > 2}
PartTerms(parts) == UNION {LongTerms(parts[i]) : i \in 1..Len(parts)}

QueryStopwords == {<<"t","h","e">>, <<"a","n","d">>, <<"f","o","r">>, <<"w","i","t","h">>, <<"f","i","n","d">>, <<"s","h","o","w">>, <<"l","i","s","t">>, <<"g","e","t">>,
                   <<"e","m","p","l","o","y","e","e","s">>, <<"e","m","p","l","o","y","e","e">>}

CompoundQuery(must_have, should_have, must_not) ==
    [must_have |-> must_have, should_have |-> should_have, must_not |-> must_not]

\* The branches on the text that the not-patterns leave.
SplitTerms(rest, must_not) ==
    IF Contains(<<" ","a","n","d"," ">>, rest)
    THEN CompoundQuery(PartTerms(SplitText(rest, <<" ","a","n","d"," ">>, 1)), {}, must_not)
    ELSE IF Contains(<<" ","o","r"," ">>, rest)
    THEN CompoundQuery({}, PartTerms(SplitText(rest, <<" ","o","r"," ">>, 1)), must_not)
    ELSE CompoundQuery(LongTerms(rest) \ QueryStopwords, {}, must_not)

parse_compound_query(query) ==
    SplitTerms(TextAfterNot(Lower(query), Len(not_patterns)), MustNot(Lower(query), Len(not_patterns)))

\* The queries of the search specification.
CompoundQueries ==
    { <<"p","y","t","h","o","n"," ","a","n","d"," ","a","w","s"," ","n","o","t"," ","j","u","n","i","o","r">>, <<"s","e","n","i","o","r"," ","o","r"," ","l","e","a","d"," ","e","n","g","i","n","e","e","r","s">>, <<"f","i","n","d"," ","t","h","e"," ","p","y","t","h","o","n"," ","e","m","p","l","o","y","e","e","s">>,
      <<"p","y","t","h","o","n"," ","a","n","d"," ","g","o">>, <<"p","y","t","h","o","n"," ","n","o","t"," ","j","u","n","i","o","r"," ","d","e","v">>, <<"P","y","t","h","o","n"," ","A","N","D"," ","A","W","S">>, <<"m","l">>,
      <<"j","a","v","a"," ","e","x","c","e","p","t"," ","i","n","t","e","r","n","s"," ","e","x","c","l","u","d","i","n","g"," ","m","a","n","a","g","e","r","s">>, <<"r","e","a","c","t"," ","o","r"," ","v","u","e"," ","w","i","t","h","o","u","t"," ","a","n","g","u","l","a","r">>,
      <<"p","y","t","h","o","n"," ","p","y","t","h","o","n">>, <<"s","h","o","w"," ","e","m","p","l","o","y","e","e","s">>, <<"n","o","t"," ","j","u","n","i","o","r">>, <<>> }

ParseCompoundQuery == Applied("parse_compound_query", parse_compound_query(call.arg))

\* The text that is left when the words after the markers are taken out, and
\* the whitespace-separated terms of its parts.
RemainingText(query) == TextAfterNot(Lower(query), Len(not_patterns))
AllTerms(parts) == UNION {Range(Split(parts[i])) : i \in 1..Len(parts)}

\* C17: parse_compound_query puts every word that follows a
\* not/except/excluding/without marker into must_not; if the text that is left
\* contains " and ", the terms of that text are must_have and should_have is
\* empty; else if it contains " or ", the terms are should_have and must_have
\* is empty; else must_have is the tokens that are not stopwords.  Every term
\* is in lowercase.
C17_CompoundParse ==
    AppliedCall("parse_compound_query") =>
        /\ ret.must_not = MustNot(Lower(call.arg), Len(not_patterns))
        /\ \A t \in ret.must_have \cup ret.should_have \cup ret.must_not : t = Lower(t)
        /\ IF Contains(<<" ","a","n","d"," ">>, RemainingText(call.arg))
           THEN /\ ret.must_have = AllTerms(SplitText(RemainingText(call.arg), <<" ","a","n","d"," ">>, 1))
                /\ ret.should_have = {}
           ELSE IF Contains(<<" ","o","r"," ">>, RemainingText(call.arg))
           THEN /\ ret.should_have = AllTerms(SplitText(RemainingText(call.arg), <<" ","o","r"," ">>, 1))
                /\ ret.must_have = {}
           ELSE /\ ret.must_have = Range(Split(RemainingText(call.arg))) \ QueryStopwords
                /\ ret.should_have = {}

\* The example of the documentation is parsed as documented.
C17_Example ==
    (AppliedCall("parse_compound_query") /\ call.arg = <<"p","y","t","h","o","n"," ","a","n","d"," ","a","w","s"," ","n","o","t"," ","j","u","n","i","o","r">>) =>
        ret = CompoundQuery({<<"p","y","t","h","o","n">>, <<"a","w","s">>}, {}, {<<"j","u","n","i","o","r">>})

(***************************************************************************)
(* search_utils.apply_compound_filter.  An employee is a record of its     *)
(* columns, each a text or None; the catalog is db.                        *)
(***************************************************************************)
DefaultSearchFields == <<"name", "position", "technical_skills", "department">>

\* getattr(emp, field, '') or ''
FieldValue(emp, field) ==
    IF field \in DOMAIN emp /\ Truthy(emp[field]) THEN emp[field].v ELSE <<>>

\* search_text after the loop over the first k fields.
RECURSIVE SearchText(_, _, _)
SearchText(emp, search_fields, k) ==
    IF k = 0 THEN <<>>
    ELSE SearchText(emp, search_fields, k - 1) \o <<" ">> \o Lower(FieldValue(emp, search_fields[k]))

AnyShouldHave(should_have, search_text) == \E term \in should_have : Contains(term, search_text)

MustHaveOk(must_have, search_text) ==
    must_have # {} => \A term \in must_have : Contains(term, search_text)
ShouldHaveOk(should_have, search_text) ==
    should_have # {} => \E term \in should_have : Contains(term, search_text)
MustNotOk(must_not, search_text) ==
    must_not # {} => ~\E term \in must_not : Contains(term, search_text)

\* Whether the loop reaches results.append(emp).
Appended(compound_query, search_text) ==
    /\ MustHaveOk(compound_query.must_have, search_text)
    /\ ShouldHaveOk(compound_query.should_have, search_text)
    /\ MustNotOk(compound_query.must_not, search_text)

FilterWith(employees, compound_query, search_fields) ==
    SelectSeq(employees,
              LAMBDA emp : Appended(compound_query, SearchText(emp, search_fields, Len(search_fields))))

apply_compound_filter(employees, compound_query, search_fields) ==
    FilterWith(employees, compound_query,
               IF Truthy(search_fields) THEN search_fields.v ELSE DefaultSearchFields)

\* The employees, catalogs, queries and field lists of the search
\* specification.
Staff(id, name, position, technical_skills, department) ==
    [id |-> id, name |-> Str(name), position |-> position,
     technical_skills |-> technical_skills, department |-> department]
StaffPool ==
    { Staff(1, <<"A","n","n"," ","L","e","e">>, Str(<<"J","u","n","i","o","r"," ","D","e","v","e","l","o","p","e","r">>), Str(<<"[","\"","P","y","t","h","o","n","\"",","," ","\"","A","W","S","\"","]">>), Str(<<"E","n","g","i","n","e","e","r","i","n","g">>)),
      Staff(2, <<"B","o","b"," ","R","a","y">>, Str(<<"S","e","n","i","o","r"," ","D","e","v","e","l","o","p","e","r">>), Str(<<"[","\"","P","y","t","h","o","n","\"",","," ","\"","J","a","v","a","\"","]">>), None),
      Staff(3, <<"J","a","v","a"," ","J","o","n","e","s">>, None, None, Str(<<"S","a","l","e","s">>)),
      Staff(4, <<"A","l"," ","P","y","t","h","o","n">>, Str(<<"Q","A">>), Str(<<>>), Str(<<>>)) }
MaxCatalog == 3
Catalogs ==
    UNION {{c \in [1..n -> StaffPool] : \A i, j \in 1..n : i < j => c[i].id # c[j].id} : n \in 0..MaxCatalog}
FilterQueries ==
    {CompoundQuery(must_have, should_have, must_not) :
        must_have \in {{}, {<<"p","y","t","h","o","n">>}, {<<"p","y","t","h","o","n">>, <<"a","w","s">>}},
        should_have \in {{}, {<<"j","a","v","a">>}, {<<"j","u","n","i","o","r">>, <<"s","a","l","e","s">>}},
        must_not \in {{}, {<<"j","u","n","i","o","r">>}, {<<"j","a","v","a">>}}}
FieldLists == {None, List(<<>>), List(<<"name">>), List(<<"position", "technical_skills", "nickname">>)}

FilterInput(compound_query, search_fields) ==
    [op |-> "input", fn |-> "apply_compound_filter", arg |-> compound_query, fields |-> search_fields]

ApplyCompoundFilter ==
    /\ call.op = "input"
    /\ call.fn = "apply_compound_filter"
    /\ call' = [call EXCEPT !.op = "applied"]
    /\ ret' = apply_compound_filter(db, call.arg, call.fields)
    /\ UNCHANGED db

\* The lowercase text of the fields that a call searches, each after a space.
SearchedFields == IF call.fields \in {None, List(<<>>)} THEN DefaultSearchFields ELSE call.fields.v
FieldText(emp) == SearchText(emp, SearchedFields, Len(SearchedFields))
HasTerm(emp, term) == Contains(term, FieldText(emp))

\* C18: apply_compound_filter returns exactly the records of the catalog, in
\* the order of the catalog, whose field text contains every must_have term,
\* at least one should_have term when there is one, and no must_not term; an
\* empty must_have or should_have excludes nothing.
C18_ExactFilter ==
    AppliedCall("apply_compound_filter") =>
        ret = SelectSeq(db, LAMBDA emp :
                  /\ \A term \in call.arg.must_have : HasTerm(emp, term)
                  /\ call.arg.should_have = {} \/ \E term \in call.arg.should_have : HasTerm(emp, term)
                  /\ \A term \in call.arg.must_not : ~HasTerm(emp, term))
C18_Witness ==
    /\ AppliedCall("apply_compound_filter")
    /\ call.arg.must_have # {} /\ call.arg.should_have = {} /\ call.arg.must_not # {}
    /\ Len(db) = 3 /\ Len(ret) = 1
\* A query of three empty sets returns the whole catalog.
C18_EmptyQueryKeepsAll ==
    (AppliedCall("apply_compound_filter") /\ call.arg = CompoundQuery({}, {}, {})) => ret = db

(***************************************************************************)
(* Synonym expansion (search_utils.expand_skill_search and                 *)
(* expand_city_search).  A table is the dict in the order of its source    *)
(* text: one row per canonical key, with the list of its variants.         *)
(***************************************************************************)
Synonyms(canonical, variants) == [canonical |-> canonical, variants |-> variants]

SKILL_SYNONYMS ==
    <<
       Synonyms(<<"j","a","v","a","s","c","r","i","p","t">>,
                <<<<"j","s">>,
                  <<"j","a","v","a","s","c","r","i","p","t">>,
                  <<"e","c","m","a","s","c","r","i","p","t">>,
                  <<"e","s","6">>,
                  <<"e","s","2","0","1","5">>,
                  <<"v","a","n","i","l","l","a"," ","j","s">>>>),
       Synonyms(<<"r","e","a","c","t">>,
                <<<<"r","e","a","c","t","j","s">>,
                  <<"r","e","a","c","t",".","j","s">>,
                  <<"r","e","a","c","t"," ","j","s">>,
                  <<"r","e","a","c","t"," ","n","a","t","i","v","e">>>>),
       Synonyms(<<"n","o","d","e">>,
                <<<<"n","o","d","e","j","s">>,
                  <<"n","o","d","e",".","j","s">>,
                  <<"n","o","d","e"," ","j","s">>>>),
       Synonyms(<<"t","y","p","e","s","c","r","i","p","t">>,
                <<<<"t","s">>,
                  <<"t","y","p","e","s","c","r","i","p","t">>>>),
       Synonyms(<<"a","n","g","u","l","a","r">>,
                <<<<"a","n","g","u","l","a","r","j","s">>,
                  <<"a","n","g","u","l","a","r",".","j","s">>,
                  <<"a","n","g","u","l","a","r"," ","2","+">>>>),
       Synonyms(<<"v","u","e">>,
                <<<<"v","u","e","j","s">>,
                  <<"v","u","e",".","j","s">>,
                  <<"v","u","e"," ","j","s">>>>),
       Synonyms(<<"p","y","t","h","o","n">>,
                <<<<"p","y","t","h","o","n">>,
                  <<"p","y","t","h","o","n","3">>,
                  <<"p","y","t","h","o","n","2">>,
                  <<"p","y">>,
                  <<"c","p","y","t","h","o","n">>,
                  <<"p","y","p","y">>>>),
       Synonyms(<<"d","j","a","n","g","o">>,
                <<<<"d","j","a","n","g","o">>,
                  <<"d","j","a","n","g","o"," ","r","e","s","t"," ","f","r","a","m","e","w","o","r","k">>,
                  <<"d","r","f">>>>),
       Synonyms(<<"f","l","a","s","k">>,
                <<<<"f","l","a","s","k">>,
                  <<"f","l","a","s","k","-","r","e","s","t","f","u","l">>>>),
       Synonyms(<<"p","a","n","d","a","s">>,
                <<<<"p","a","n","d","a","s">>,
                  <<"n","u","m","p","y">>,
                  <<"s","c","i","p","y">>>>),
       Synonyms(<<"j","a","v","a">>,
                <<<<"j","a","v","a">>,
                  <<"j","a","v","a","8">>,
                  <<"j","a","v","a","1","1">>,
                  <<"j","a","v","a","1","7">>,
                  <<"j","2","e","e">>,
                  <<"j","e","e">>>>),
       Synonyms(<<"s","p","r","i","n","g">>,
                <<<<"s","p","r","i","n","g">>,
                  <<"s","p","r","i","n","g"," ","b","o","o","t">>,
                  <<"s","p","r","i","n","g","b","o","o","t">>,
                  <<"s","p","r","i","n","g"," ","m","v","c">>,
                  <<"s","p","r","i","n","g"," ","f","r","a","m","e","w","o","r","k">>>>),
       Synonyms(<<"k","o","t","l","i","n">>,
                <<<<"k","o","t","l","i","n">>,
                  <<"k","t">>>>),
       Synonyms(<<"a","w","s">>,
                <<<<"a","w","s">>,
                  <<"a","m","a","z","o","n"," ","w","e","b"," ","s","e","r","v","i","c","e","s">>,
                  <<"e","c","2">>,
                  <<"s","3">>,
                  <<"l","a","m","b","d","a">>,
                  <<"c","l","o","u","d","f","o","r","m","a","t","i","o","n">>>>),
       Synonyms(<<"a","z","u","r","e">>,
                <<<<"a","z","u","r","e">>,
                  <<"m","i","c","r","o","s","o","f","t"," ","a","z","u","r","e">>,
                  <<"a","z","u","r","e"," ","d","e","v","o","p","s">>>>),
       Synonyms(<<"g","c","p">>,
                <<<<"g","c","p">>,
                  <<"g","o","o","g","l","e"," ","c","l","o","u","d">>,
                  <<"g","o","o","g","l","e"," ","c","l","o","u","d"," ","p","l","a","t","f","o","r","m">>,
                  <<"b","i","g","q","u","e","r","y">>>>),
       Synonyms(<<"d","o","c","k","e","r">>,
                <<<<"d","o","c","k","e","r">>,
                  <<"d","o","c","k","e","r","f","i","l","e">>,
                  <<"d","o","c","k","e","r","-","c","o","m","p","o","s","e">>,
                  <<"c","o","n","t","a","i","n","e","r","i","z","a","t","i","o","n">>>>),
       Synonyms(<<"k","u","b","e","r","n","e","t","e","s">>,
                <<<<"k","u","b","e","r","n","e","t","e","s">>,
                  <<"k","8","s">>,
                  <<"k","u","b","e","c","t","l">>,
                  <<"h","e","l","m">>>>),
       Synonyms(<<"d","e","v","o","p","s">>,
                <<<<"d","e","v","o","p","s">>,
                  <<"c","i","/","c","d">>,
                  <<"c","i","c","d">>,
                  <<"j","e","n","k","i","n","s">>,
                  <<"g","i","t","l","a","b"," ","c","i">>,
                  <<"g","i","t","h","u","b"," ","a","c","t","i","o","n","s">>>>),
       Synonyms(<<"s","q","l">>,
                <<<<"s","q","l">>,
                  <<"m","y","s","q","l">>,
                  <<"p","o","s","t","g","r","e","s","q","l">>,
                  <<"p","o","s","t","g","r","e","s">>,
                  <<"m","s","s","q","l">>,
                  <<"s","q","l"," ","s","e","r","v","e","r">>,
                  <<"o","r","a","c","l","e">>,
                  <<"s","q","l","i","t","e">>>>),
       Synonyms(<<"n","o","s","q","l">>,
                <<<<"n","o","s","q","l">>,
                  <<"m","o","n","g","o","d","b">>,
                  <<"m","o","n","g","o">>,
                  <<"c","a","s","s","a","n","d","r","a">>,
                  <<"d","y","n","a","m","o","d","b">>,
                  <<"c","o","u","c","h","d","b">>,
                  <<"r","e","d","i","s">>>>),
       Synonyms(<<"m","o","n","g","o","d","b">>,
                <<<<"m","o","n","g","o","d","b">>,
                  <<"m","o","n","g","o">>,
                  <<"m","o","n","g","o","o","s","e">>>>),
       Synonyms(<<"t","e","s","t","i","n","g">>,
                <<<<"t","e","s","t","i","n","g">>,
                  <<"q","a">>,
                  <<"q","u","a","l","i","t","y"," ","a","s","s","u","r","a","n","c","e">>,
                  <<"t","e","s","t"," ","a","u","t","o","m","a","t","i","o","n">>>>),
       Synonyms(<<"s","e","l","e","n","i","u","m">>,
                <<<<"s","e","l","e","n","i","u","m">>,
                  <<"s","e","l","e","n","i","u","m"," ","w","e","b","d","r","i","v","e","r">>,
                  <<"s","e","l","e","n","i","d","e">>>>),
       Synonyms(<<"j","u","n","i","t">>,
                <<<<"j","u","n","i","t">>,
                  <<"t","e","s","t","n","g">>,
                  <<"m","o","c","k","i","t","o">>>>),
       Synonyms(<<"p","y","t","e","s","t">>,
                <<<<"p","y","t","e","s","t">>,
                  <<"u","n","i","t","t","e","s","t">>,
                  <<"n","o","s","e">>>>),
       Synonyms(<<"a","g","i","l","e">>,
                <<<<"a","g","i","l","e">>,
                  <<"s","c","r","u","m">>,
                  <<"k","a","n","b","a","n">>,
                  <<"s","a","f","e">>,
                  <<"l","e","a","n">>>>),
       Synonyms(<<"s","c","r","u","m">>,
                <<<<"s","c","r","u","m">>,
                  <<"s","c","r","u","m"," ","m","a","s","t","e","r">>,
                  <<"s","p","r","i","n","t">>>>),
       Synonyms(<<"j","i","r","a">>,
                <<<<"j","i","r","a">>,
                  <<"a","t","l","a","s","s","i","a","n">>,
                  <<"c","o","n","f","l","u","e","n","c","e">>>>),
       Synonyms(<<"m","a","c","h","i","n","e"," ","l","e","a","r","n","i","n","g">>,
                <<<<"m","a","c","h","i","n","e"," ","l","e","a","r","n","i","n","g">>,
                  <<"m","l">>,
                  <<"d","e","e","p"," ","l","e","a","r","n","i","n","g">>,
                  <<"d","l">>,
                  <<"a","i">>,
                  <<"a","r","t","i","f","i","c","i","a","l"," ","i","n","t","e","l","l","i","g","e","n","c","e">>>>),
       Synonyms(<<"t","e","n","s","o","r","f","l","o","w">>,
                <<<<"t","e","n","s","o","r","f","l","o","w">>,
                  <<"t","f">>,
                  <<"k","e","r","a","s">>>>),
       Synonyms(<<"p","y","t","o","r","c","h">>,
                <<<<"p","y","t","o","r","c","h">>,
                  <<"t","o","r","c","h">>>>),
       Synonyms(<<"a","n","d","r","o","i","d">>,
                <<<<"a","n","d","r","o","i","d">>,
                  <<"k","o","t","l","i","n">>,
                  <<"a","n","d","r","o","i","d"," ","s","t","u","d","i","o">>>>),
       Synonyms(<<"i","o","s">>,
                <<<<"i","o","s">>,
                  <<"s","w","i","f","t">>,
                  <<"o","b","j","e","c","t","i","v","e","-","c">>,
                  <<"x","c","o","d","e">>>>),
       Synonyms(<<"m","o","b","i","l","e">>,
                <<<<"m","o","b","i","l","e">>,
                  <<"r","e","a","c","t"," ","n","a","t","i","v","e">>,
                  <<"f","l","u","t","t","e","r">>,
                  <<"x","a","m","a","r","i","n">>>>)
    >>

CITY_SYNONYMS ==
    <<
       Synonyms(<<"b","a","n","g","a","l","o","r","e">>,
                <<<<"b","a","n","g","a","l","o","r","e">>,
                  <<"b","e","n","g","a","l","u","r","u">>,
                  <<"b","l","r">>,
                  <<"b","a","n","g","a","l","o","r","e"," ","u","r","b","a","n">>,
                  <<"b","a","n","g","a","l","o","r","e"," ","r","u","r","a","l">>>>),
       Synonyms(<<"m","u","m","b","a","i">>,
                <<<<"m","u","m","b","a","i">>,
                  <<"b","o","m","b","a","y">>,
                  <<"b","o","m">>>>),
       Synonyms(<<"d","e","l","h","i">>,
                <<<<"d","e","l","h","i">>,
                  <<"n","e","w"," ","d","e","l","h","i">>,
                  <<"n","c","r">>,
                  <<"d","e","l">>,
                  <<"n","o","i","d","a">>,
                  <<"g","u","r","g","a","o","n">>,
                  <<"g","u","r","u","g","r","a","m">>>>),
       Synonyms(<<"c","h","e","n","n","a","i">>,
                <<<<"c","h","e","n","n","a","i">>,
                  <<"m","a","d","r","a","s">>,
                  <<"m","a","a">>>>),
       Synonyms(<<"h","y","d","e","r","a","b","a","d">>,
                <<<<"h","y","d","e","r","a","b","a","d">>,
                  <<"h","y","d">>,
                  <<"s","e","c","u","n","d","e","r","a","b","a","d">>,
                  <<"c","y","b","e","r","a","b","a","d">>>>),
       Synonyms(<<"k","o","l","k","a","t","a">>,
                <<<<"k","o","l","k","a","t","a">>,
                  <<"c","a","l","c","u","t","t","a">>,
                  <<"c","a","l">>>>),
       Synonyms(<<"p","u","n","e">>,
                <<<<"p","u","n","e">>,
                  <<"p","o","o","n","a">>>>),
       Synonyms(<<"a","h","m","e","d","a","b","a","d">>,
                <<<<"a","h","m","e","d","a","b","a","d">>,
                  <<"a","m","d","a","v","a","d">>>>),
       Synonyms(<<"n","e","w"," ","y","o","r","k">>,
                <<<<"n","e","w"," ","y","o","r","k">>,
                  <<"n","y","c">>,
                  <<"n","y">>,
                  <<"m","a","n","h","a","t","t","a","n">>,
                  <<"b","r","o","o","k","l","y","n">>>>),
       Synonyms(<<"s","a","n"," ","f","r","a","n","c","i","s","c","o">>,
                <<<<"s","a","n"," ","f","r","a","n","c","i","s","c","o">>,
                  <<"s","f">>,
                  <<"b","a","y"," ","a","r","e","a">>,
                  <<"s","i","l","i","c","o","n"," ","v","a","l","l","e","y">>>>),
       Synonyms(<<"l","o","s"," ","a","n","g","e","l","e","s">>,
                <<<<"l","o","s"," ","a","n","g","e","l","e","s">>,
                  <<"l","a">>,
                  <<"h","o","l","l","y","w","o","o","d">>>>),
       Synonyms(<<"s","e","a","t","t","l","e">>,
                <<<<"s","e","a","t","t","l","e">>,
                  <<"s","e","a">>>>),
       Synonyms(<<"a","u","s","t","i","n">>,
                <<<<"a","u","s","t","i","n">>,
                  <<"a","t","x">>>>),
       Synonyms(<<"b","o","s","t","o","n">>,
                <<<<"b","o","s","t","o","n">>,
                  <<"b","o","s">>>>),
       Synonyms(<<"c","h","i","c","a","g","o">>,
                <<<<"c","h","i","c","a","g","o">>,
                  <<"c","h","i">>>>),
       Synonyms(<<"l","o","n","d","o","n">>,
                <<<<"l","o","n","d","o","n">>,
                  <<"l","d","n">>>>),
       Synonyms(<<"m","a","n","c","h","e","s","t","e","r">>,
                <<<<"m","a","n","c","h","e","s","t","e","r">>,
                  <<"m","a","n">>>>),
       Synonyms(<<"r","e","m","o","t","e">>,
                <<<<"r","e","m","o","t","e">>,
                  <<"w","o","r","k"," ","f","r","o","m"," ","h","o","m","e">>,
                  <<"w","f","h">>,
                  <<"a","n","y","w","h","e","r","e">>,
                  <<"d","i","s","t","r","i","b","u","t","e","d">>>>)
    >>

\* The row of a canonical key, or 0: `term in SYNONYMS`.
KeyRow(table, term) ==
    IF \E i \in 1..Len(table) : table[i].canonical = term
    THEN CHOOSE i \in 1..Len(table) : table[i].canonical = term
    ELSE 0

\* The reverse mapping, filled row after row, so that a later row overwrites
\* an earlier one: the last row that lists the variant, or 0.
ToCanonical(table, term) ==
    IF \E i \in 1..Len(table) : term \in Range(table[i].variants)
    THEN CHOOSE i \in 1..Len(table) :
             /\ term \in Range(table[i].variants)
             /\ \A j \in (i + 1)..Len(table) : term \notin Range(table[j].variants)
    ELSE 0

\* The body that the two functions share, on the lowercased, trimmed term.
ExpandLower(table, term_lower) ==
    IF KeyRow(table, term_lower) # 0 THEN table[KeyRow(table, term_lower)].variants
    ELSE IF ToCanonical(table, term_lower) # 0 THEN table[ToCanonical(table, term_lower)].variants
    ELSE <<term_lower>>

expand_skill_search(skill) == ExpandLower(SKILL_SYNONYMS, Strip(Lower(skill)))
expand_city_search(city) == ExpandLower(CITY_SYNONYMS, Strip(Lower(city)))

\* The terms of the search specification: every key and every variant of the
\* two tables, and terms that are in neither.
TableTerms(table) ==
    {table[i].canonical : i \in 1..Len(table)} \cup UNION {Range(table[i].variants) : i \in 1..Len(table)}
OtherTerms == {<<"r","u","s","t">>, <<"p","a","r","i","s">>, <<"J","S">>, <<" ","P","u","n","e"," ">>, <<"R","u","s","t">>, <<>>}

ExpandSkillSearch == Applied("expand_skill_search", expand_skill_search(call.arg))
ExpandCitySearch == Applied("expand_city_search", expand_city_search(call.arg))

\* The table of the function that was called, and the term it looks up.
CalledTable == IF call.fn = "expand_skill_search" THEN SKILL_SYNONYMS ELSE CITY_SYNONYMS
LookedUp == Strip(Lower(call.arg))

\* C19: an expansion returns the full list of variants of every canonical key
\* that the term is, or under which the term is listed, and the one-element
\* list of the term when the term is in no row of the table.
C19_FullSynonymList ==
    (AppliedCall("expand_skill_search") \/ AppliedCall("expand_city_search")) =>
        /\ \A i \in 1..Len(CalledTable) :
               (LookedUp = CalledTable[i].canonical \/ LookedUp \in Range(CalledTable[i].variants))
                   => ret = CalledTable[i].variants
        /\ LookedUp \notin TableTerms(CalledTable) => ret = <<LookedUp>>

\* The city table alone, whose rows share no term.
C19_CityExpansion ==
    AppliedCall("expand_city_search") =>
        /\ \A i \in 1..Len(CITY_SYNONYMS) :
               (LookedUp = CITY_SYNONYMS[i].canonical \/ LookedUp \in Range(CITY_SYNONYMS[i].variants))
                   => ret = CITY_SYNONYMS[i].variants
        /\ LookedUp \notin TableTerms(CITY_SYNONYMS) => ret = <<LookedUp>>

(***************************************************************************)
(* Durations (search_utils.parse_date_flexible, parse_duration_to_months). *)
(* A date is a record of year, month and day; today is an input of the     *)
(* call.  dateutil is modelled for the texts it is given here: a month     *)
(* name and a year, an ISO date, and texts that are no date.               *)
(***************************************************************************)
Date(year, month, day) == [t |-> "date", y |-> year, m |-> month, d |-> day]
IsDate(x) == x.t = "date"
ValueError == [t |-> "raise", v |-> "ValueError"]
IsRaise(x) == x.t = "raise"

IsLeap(year) == year % 4 = 0 /\ (year % 100 # 0 \/ year % 400 = 0)
DaysInMonth(year, month) ==
    IF month = 2 THEN (IF IsLeap(year) THEN 29 ELSE 28)
    ELSE IF month \in {4, 6, 9, 11} THEN 30 ELSE 31

\* The order of dates: a < b and a > b.
DateBefore(a, b) ==
    a.y < b.y \/ (a.y = b.y /\ (a.m < b.m \/ (a.m = b.m /\ a.d < b.d)))
DateAfter(a, b) == DateBefore(b, a)

\* dt + relativedelta(months=n): the day is cut to the length of the month.
DayInMonth(year, month, day) ==
    Date(year, month, IF day > DaysInMonth(year, month) THEN DaysInMonth(year, month) ELSE day)
AddMonths(dt, n) ==
    DayInMonth((dt.y * 12 + dt.m - 1 + n) \div 12, ((dt.y * 12 + dt.m - 1 + n) % 12) + 1, dt.d)

\* relativedelta(dt1, dt2): the difference of the months is corrected step by
\* step until dt2 plus the months does not pass dt1; years * 12 + months of
\* the result is that number.
RECURSIVE AdjustMonths(_, _, _)
AdjustMonths(dt1, dt2, months) ==
    IF DateBefore(dt1, dt2)
    THEN (IF DateAfter(dt1, AddMonths(dt2, months)) THEN AdjustMonths(dt1, dt2, months + 1) ELSE months)
    ELSE (IF DateBefore(dt1, AddMonths(dt2, months)) THEN AdjustMonths(dt1, dt2, months - 1) ELSE months)

RelativeMonths(dt1, dt2) ==
    AdjustMonths(dt1, dt2, (dt1.y - dt2.y) * 12 + (dt1.m - dt2.m))

\* The month names that dateutil knows, in lowercase.
DateutilMonths ==
    << {<<"j","a","n">>, <<"j","a","n","u","a","r","y">>}, {<<"f","e","b">>, <<"f","e","b","r","u","a","r","y">>}, {<<"m","a","r">>, <<"m","a","r","c","h">>}, {<<"a","p","r">>, <<"a","p","r","i","l">>},
       {<<"m","a","y">>}, {<<"j","u","n">>, <<"j","u","n","e">>}, {<<"j","u","l">>, <<"j","u","l","y">>}, {<<"a","u","g">>, <<"a","u","g","u","s","t">>},
       {<<"s","e","p">>, <<"s","e","p","t">>, <<"s","e","p","t","e","m","b","e","r">>}, {<<"o","c","t">>, <<"o","c","t","o","b","e","r">>}, {<<"n","o","v">>, <<"n","o","v","e","m","b","e","r">>},
       {<<"d","e","c">>, <<"d","e","c","e","m","b","e","r">>} >>
MonthOf(name) ==
    IF \E i \in 1..12 : name \in DateutilMonths[i] THEN CHOOSE i \in 1..12 : name \in DateutilMonths[i] ELSE 0

AllDigits(s, n) == Len(s) = n /\ \A i \in 1..n : IsDigit(s[i])

\* "yyyy-mm-dd" with a month and a day that exist.
IsIsoDate(s) ==
    /\ Len(s) = 10 /\ s[5] = "-" /\ s[8] = "-"
    /\ AllDigits(SubSeq(s, 1, 4), 4) /\ AllDigits(SubSeq(s, 6, 7), 2) /\ AllDigits(SubSeq(s, 9, 10), 2)
    /\ NatOfStr(SubSeq(s, 1, 4)) >= 1
    /\ NatOfStr(SubSeq(s, 6, 7)) \in 1..12
    /\ NatOfStr(SubSeq(s, 9, 10)) \in 1..DaysInMonth(NatOfStr(SubSeq(s, 1, 4)), NatOfStr(SubSeq(s, 6, 7)))

\* "month yyyy"
IsMonthYear(words) ==
    Len(words) = 2 /\ MonthOf(words[1]) # 0 /\ AllDigits(words[2], 4) /\ NatOfStr(words[2]) >= 1

\* date_parser.parse(date_str).date(): what the text does not give is taken
\* from today, and a day past the end of the month becomes its last day.
\* None stands for the exception that every call site catches.
DateutilParse(date_str, today) ==
    IF IsIsoDate(date_str)
    THEN Date(NatOfStr(SubSeq(date_str, 1, 4)), NatOfStr(SubSeq(date_str, 6, 7)), NatOfStr(SubSeq(date_str, 9, 10)))
    ELSE IF IsMonthYear(Split(date_str))
    THEN DayInMonth(NatOfStr(Split(date_str)[2]), MonthOf(Split(date_str)[1]), today.d)
    ELSE None

PresentWords == {<<"p","r","e","s","e","n","t">>, <<"c","u","r","r","e","n","t">>, <<"n","o","w">>, <<"t","o","d","a","y">>, <<"o","n","g","o","i","n","g">>, <<"t","i","l","l"," ","d","a","t","e">>}

\* parse_date_flexible after the test of the empty text, on the trimmed,
\* lowercased text.  date(0, 1, 1) raises ValueError, which nothing catches.
ParseLowerDate(date_str, today) ==
    IF date_str \in PresentWords THEN today
    ELSE IF AllDigits(date_str, 4)
    THEN (IF NatOfStr(date_str) = 0 THEN ValueError ELSE Date(NatOfStr(date_str), 1, 1))
    ELSE DateutilParse(date_str, today)

\* date_str is a text or None.
parse_date_flexible(date_str, today) ==
    IF ~Truthy(date_str) THEN None ELSE ParseLowerDate(Lower(Strip(date_str.v)), today)

\* separators, in the order in which they are tried.
separators == <<<<" ","-"," ">>, <<" ","t","o"," ">>, <<" ", "en_dash", " ">>, <<"-">>, <<"en_dash">>, <<"arrow">>>>

\* The first separator that the text contains, or 0.
FirstSeparator(duration) ==
    IF \E k \in 1..Len(separators) : Contains(separators[k], duration)
    THEN Min({k \in 1..Len(separators) : Contains(separators[k], duration)})
    ELSE 0

\* start_str and end_str after the loop over the separators (None when no
\* separator is in the text).
Ends(start_str, end_str) == [start_str |-> start_str, end_str |-> end_str]
SplitEnds(parts) == Ends(Str(Strip(parts[1])), Str(Strip(parts[Len(parts)])))
SeparatedEnds(duration) ==
    IF FirstSeparator(duration) = 0 THEN Ends(None, None)
    ELSE SplitEnds(SplitText(duration, separators[FirstSeparator(duration)], 1))

\* re.findall(r'\d{4}', duration)
FourDigits == <<Cls(DigitChars, 4, 4)>>

\* The fallback on the years of the text when start_str is empty or None.
YearEnds(ends, years) ==
    IF Len(years) >= 2 THEN Ends(Str(years[1]), Str(years[Len(years)]))
    ELSE IF Len(years) = 1 THEN Ends(Str(years[1]), Str(<<"p","r","e","s","e","n","t">>))
    ELSE ends
FinalEnds(ends, duration) ==
    IF Truthy(ends.start_str) THEN ends ELSE YearEnds(ends, ReFindAll(FourDigits, duration))

\* The end of the function, from the two parsed dates.  An exception of
\* either call of parse_date_flexible leaves the function.
MonthsOf(start_date, end_date, today) ==
    IF IsRaise(start_date) THEN start_date
    ELSE IF IsRaise(end_date) THEN end_date
    ELSE IF IsNone(start_date) THEN Num(0)
    ELSE IF RelativeMonths(IF IsNone(end_date) THEN today ELSE end_date, start_date) < 0 THEN Num(0)
    ELSE Num(RelativeMonths(IF IsNone(end_date) THEN today ELSE end_date, start_date))

ParsedEnds(ends, today) ==
    MonthsOf(parse_date_flexible(ends.start_str, today), parse_date_flexible(ends.end_str, today), today)

parse_duration_to_months(duration, today) ==
    IF duration = <<>> THEN Num(0)
    ELSE ParsedEnds(FinalEnds(SeparatedEnds(Strip(duration)), Strip(duration)), today)

\* The durations and the days of the search specification.
Durations ==
    { <<"J","a","n"," ","2","0","2","0"," ","-"," ","P","r","e","s","e","n","t">>, <<"2","0","1","8","-","2","0","2","0">>, <<"2","0","2","0"," ","-"," ","2","0","1","8">>, <<"J","a","n"," ","2","0","2","0"," ","-"," ","M","a","r"," ","2","0","2","1">>,
      <<"M","a","r"," ","2","0","2","1"," ","-"," ","J","a","n"," ","2","0","2","0">>, <<"2","0","1","9"," ","t","o"," ","2","0","2","1">>, <<"f","o","o"," ","-"," ","2","0","2","0">>, <<"J","a","n"," ","2","0","2","0"," ","-"," ","f","o","o">>, <<"s","i","n","c","e"," ","2","0","1","9">>,
      <<"2","0","1","5",","," ","2","0","1","7"," ","a","n","d"," ","2","0","1","9">>, <<"D","e","c"," ","2","0","2","3"," ","-"," ","P","r","e","s","e","n","t">>, <<"2","0","2","0","-","0","1","-","3","1"," ","-"," ","2","0","2","1","-","0","2","-","2","8">>,
      <<"F","e","b"," ","2","0","2","0"," ","-"," ","n","o","w">>, <<"J","u","n","e"," ","2","0","2","1"," ","-"," ">>, <<"-"," ","2","0","2","0">>, <<"J","a","n"," ","2","0","2","1"," ","-"," ","2","0","2","2">>, <<"0","0","0","0","-","2","0","2","0">>,
      <<"2","0","2","0"," ","-"," ","0","0","0","0">>, <<"t","h","r","e","e"," ","y","e","a","r","s">>, <<" ","2","0","1","8"," ","-"," ","2","0","2","0"," ">>, <<>>,
      <<"S","e","p","t"," ","2","0","1","9"," ","en_dash"," ","c","u","r","r","e","n","t">>,
      <<"2","0","1","6","arrow","2","0","1","8">> }
Todays == {Date(2024, 1, 15), Date(2024, 1, 31), Date(2024, 2, 29), Date(2023, 12, 1), Date(2019, 6, 30)}

DurationInput(duration, today) ==
    [op |-> "input", fn |-> "parse_duration_to_months", arg |-> duration, today |-> today]

ParseDurationToMonths ==
    /\ call.op = "input"
    /\ call.fn = "parse_duration_to_months"
    /\ call' = [call EXCEPT !.op = "applied"]
    /\ ret' = parse_duration_to_months(call.arg, call.today)
    /\ UNCHANGED db

\* The two ends of the duration of the call, as parse_date_flexible reads
\* them; the end is today when it is open or cannot be read.
CallEnds == FinalEnds(SeparatedEnds(Strip(call.arg)), Strip(call.arg))
StartDate == parse_date_flexible(CallEnds.start_str, call.today)
ReadEnd == parse_date_flexible(CallEnds.end_str, call.today)
EndDate == IF IsDate(ReadEnd) THEN ReadEnd ELSE call.today

\* ret whole months lead from the start to the end at most, and one more
\* month leads past the end.
WholeMonthsBetween ==
    /\ ~DateAfter(AddMonths(StartDate, ret.v), EndDate)
    /\ DateAfter(AddMonths(StartDate, ret.v + 1), EndDate)

\* C20: parse_duration_to_months returns a number that is never negative: 0
\* when the start cannot be parsed or the end precedes the start, else the
\* whole number of calendar months from the parsed start to the parsed end,
\* today standing for an open or unparsable end.
C20_WholeMonths ==
    AppliedCall("parse_duration_to_months") =>
        /\ ret.t = "num" /\ ret.v >= 0
        /\ IF call.arg = <<>> \/ ~IsDate(StartDate) THEN ret = Num(0)
           ELSE IF DateBefore(EndDate, StartDate) THEN ret = Num(0)
           ELSE WholeMonthsBetween

\* The same for the calls that return: only a year 0000 at either end makes
\* the call raise.
C20_MonthsWhenReturned ==
    (AppliedCall("parse_duration_to_months") /\ ~IsRaise(ret)) =>
        /\ ret.t = "num" /\ ret.v >= 0
        /\ IF call.arg = <<>> \/ ~IsDate(StartDate) THEN ret = Num(0)
           ELSE IF DateBefore(EndDate, StartDate) THEN ret = Num(0)
           ELSE WholeMonthsBetween
C20_RaisesOnlyYearZero ==
    (AppliedCall("parse_duration_to_months") /\ IsRaise(ret)) => Contains(<<"0","0","0","0">>, call.arg)

\* The examples of the documentation, today being 2024-01-15.
C20_Examples ==
    (AppliedCall("parse_duration_to_months") /\ call.today = Date(2024, 1, 15)) =>
        /\ call.arg = <<"J","a","n"," ","2","0","2","0"," ","-"," ","P","r","e","s","e","n","t">> => ret = Num(48)
        /\ call.arg = <<"2","0","1","8","-","2","0","2","0">> => ret = Num(24)

(***************************************************************************)
(* Date ranges (search_utils.check_date_range_overlap and                  *)
(* find_employees_in_date_range).  work_experience is the JSON text of the *)
(* column, or None.                                                        *)
(***************************************************************************)
DateLE(a, b) == ~DateBefore(b, a)

check_date_range_overlap(emp_start, emp_end, search_start, search_end) ==
    DateLE(emp_start, search_end) /\ DateLE(search_start, emp_end)

\* json.loads(emp.work_experience), or [] when the column is empty or is not
\* JSON.
WorkExperience(emp) ==
    IF ~Truthy(emp.work_experience) THEN List(<<>>)
    ELSE IF json_loads(emp.work_experience.v).ok THEN json_loads(emp.work_experience.v).v
    ELSE List(<<>>)

\* parts: the duration split at '-', or at ' to ' when '-' gives one part.
DurationParts(duration) ==
    IF Len(SplitOn(duration, "-")) < 2 THEN SplitText(duration, <<" ","t","o"," ">>, 1) ELSE SplitOn(duration, "-")

\* The overlap type of a job that overlaps the window.
OverlapType(job_start, job_end, search_start, search_end) ==
    IF DateLE(search_start, job_start) /\ DateLE(job_end, search_end) THEN "contained"
    ELSE IF DateLE(job_start, search_start) /\ DateLE(search_end, job_end) THEN "contains"
    ELSE "overlaps"

OverlapJob(job, job_start, job_end, search_start, search_end) ==
    [job |-> job, overlap_type |-> OverlapType(job_start, job_end, search_start, search_end),
     job_start |-> job_start, job_end |-> job_end]

\* Whether the job is appended to overlap_jobs, from its two parsed dates.
JobOverlaps(job_start, job_end, search_start, search_end) ==
    /\ IsDate(job_start) /\ IsDate(job_end)
    /\ check_date_range_overlap(job_start, job_end, search_start, search_end)

JobStart(job, today) == parse_date_flexible(Str(Strip(DurationParts(PyStr(DictGetOr(job, "duration", Str(<<>>))))[1])), today)
JobEnd(job, today) ==
    parse_date_flexible(Str(Strip(DurationParts(PyStr(DictGetOr(job, "duration", Str(<<>>))))[
                                      Len(DurationParts(PyStr(DictGetOr(job, "duration", Str(<<>>)))))])), today)

\* The jobs that reach the parsing of their dates.
HasDuration(job) ==
    /\ IsDict(job)
    /\ Truthy(DictGetOr(job, "duration", Str(<<>>)))
    /\ Len(DurationParts(PyStr(DictGetOr(job, "duration", Str(<<>>))))) >= 2

OverlapJobs(work_exp, search_start, search_end, today) ==
    LET kept == SelectSeq(work_exp, LAMBDA job :
                    HasDuration(job)
                    /\ JobOverlaps(JobStart(job, today), JobEnd(job, today), search_start, search_end))
    IN [i \in 1..Len(kept) |->
            OverlapJob(kept[i], JobStart(kept[i], today), JobEnd(kept[i], today), search_start, search_end)]

EmployeeOverlap(emp, overlap_jobs) == [employee |-> emp, overlap_jobs |-> overlap_jobs]

RangeResults(all_employees, search_start, search_end, today) ==
    SelectSeq([i \in 1..Len(all_employees) |->
                  EmployeeOverlap(all_employees[i],
                                  OverlapJobs(WorkExperience(all_employees[i]).v, search_start, search_end, today))],
              LAMBDA result : result.overlap_jobs # <<>>)

\* end_year is a number or None.
find_employees_in_date_range(all_employees, start_year, end_year, today) ==
    RangeResults(all_employees, Date(start_year, 1, 1),
                 Date(IF IsNone(end_year) THEN start_year ELSE end_year.v, 12, 31), today)

\* The employees, years and days of the date-range calls.
Worker(id, work_experience) == [id |-> id, work_experience |-> work_experience]
WorkTexts ==
    { None,
      Str(<<"[","{","\"","d","u","r","a","t","i","o","n","\"",":"," ","\"","J","a","n"," ","2","0","1","9"," ","-"," ","D","e","c"," ","2","0","2","1","\"","}","]">>),
      Str(<<"[","{","\"","c","o","m","p","a","n","y","\"",":"," ","\"","X","\"",","," ","\"","d","u","r","a","t","i","o","n","\"",":"," ","\"","2","0","1","9","-","2","0","2","1","\"","}",","," ","{","\"","d","u","r","a","t","i","o","n","\"",":"," ","\"","2","0","2","2"," ","t","o"," ","2","0","2","3","\"","}","]">>),
      Str(<<"[","{","\"","d","u","r","a","t","i","o","n","\"",":"," ","\"","M","a","r"," ","2","0","2","0"," ","-"," ","S","e","p"," ","2","0","2","0","\"","}",","," ","\"","n","o","t","e","\"",","," ","{","\"","c","o","m","p","a","n","y","\"",":"," ","\"","Y","\"","}","]">>),
      Str(<<"[","{","\"","d","u","r","a","t","i","o","n","\"",":"," ","\"","2","0","2","0"," ","-"," ","P","r","e","s","e","n","t","\"","}","]">>),
      Str(<<"[","{","\"","d","u","r","a","t","i","o","n","\"",":"," ","\"","J","u","n"," ","2","0","2","0"," ","-"," ","J","u","n"," ","2","0","2","2","\"","}",","," ","{","\"","d","u","r","a","t","i","o","n","\"",":"," ","\"","s","i","n","c","e"," ","2","0","1","9","\"","}","]">>),
      Str(<<"n","/","a">>) }
MaxWorkers == 2
WorkerCatalogs ==
    UNION {[1..n -> WorkTexts] : n \in 1..MaxWorkers}
RangeInput(start_year, end_year, today) ==
    [op |-> "input", fn |-> "find_employees_in_date_range", start_year |-> start_year,
     end_year |-> end_year, today |-> today]
RangeInputs ==
    {RangeInput(start_year, end_year, today) :
        start_year \in {2019, 2020, 2022}, end_year \in {None, Num(2020), Num(2023)},
        today \in {Date(2024, 1, 15), Date(2024, 1, 31)}}

FindEmployeesInDateRange ==
    /\ call.op = "input"
    /\ call.fn = "find_employees_in_date_range"
    /\ call' = [call EXCEPT !.op = "applied"]
    /\ ret' = find_employees_in_date_range(db, call.start_year, call.end_year, call.today)
    /\ UNCHANGED db

\* The window of the call, and the reported jobs of the result.
WindowStart == Date(call.start_year, 1, 1)
WindowEnd == Date(IF IsNone(call.end_year) THEN call.start_year ELSE call.end_year.v, 12, 31)
Reported == UNION {Range(ret[i].overlap_jobs) : i \in 1..Len(ret)}
\* A job interval from a day of 2019-01 to a day of 2021-12.
From2019To2021(job_start, job_end) ==
    job_start.y = 2019 /\ job_start.m = 1 /\ job_end.y = 2021 /\ job_end.m = 12
SomeJobFrom2019To2021 ==
    \E i \in 1..Len(db) : \E job \in Range(WorkExperience(db[i]).v) :
        HasDuration(job) /\ IsDate(JobStart(job, call.today)) /\ IsDate(JobEnd(job, call.today))
        /\ From2019To2021(JobStart(job, call.today), JobEnd(job, call.today))

\* C21: a job is reported only if its interval overlaps the window
\* (s1 <= e2 and e1 >= s2); a job from 2019-01 to 2021-12 is reported as
\* "contained" for the window 2020-01..2020-12 and is not reported for the
\* window 2022-01..2023-12.
C21_OverlapClassified ==
    AppliedCall("find_employees_in_date_range") =>
        /\ \A r \in Reported : DateLE(r.job_start, WindowEnd) /\ DateLE(WindowStart, r.job_end)
        /\ (WindowStart = Date(2020, 1, 1) /\ WindowEnd = Date(2020, 12, 31)) =>
               /\ SomeJobFrom2019To2021 => \E r \in Reported : From2019To2021(r.job_start, r.job_end)
               /\ \A r \in Reported : From2019To2021(r.job_start, r.job_end) => r.overlap_type = "contained"
        /\ (WindowStart = Date(2022, 1, 1) /\ WindowEnd = Date(2023, 12, 31)) =>
               \A r \in Reported : ~From2019To2021(r.job_start, r.job_end)

\* What holds: the jobs reported are those that overlap, the job of the
\* example is reported for the first window with the type "contains", and is
\* not reported for the second.
C21_ReportedOnlyIfOverlap ==
    AppliedCall("find_employees_in_date_range") =>
        /\ \A r \in Reported : DateLE(r.job_start, WindowEnd) /\ DateLE(WindowStart, r.job_end)
        /\ (WindowStart = Date(2020, 1, 1) /\ WindowEnd = Date(2020, 12, 31)) =>
               /\ SomeJobFrom2019To2021 => \E r \in Reported : From2019To2021(r.job_start, r.job_end)
               /\ \A r \in Reported : From2019To2021(r.job_start, r.job_end) => r.overlap_type = "contains"
        /\ (WindowStart = Date(2022, 1, 1) /\ WindowEnd = Date(2023, 12, 31)) =>
               \A r \in Reported : ~From2019To2021(r.job_start, r.job_end)

\* skills_match(search_skill, employee_skills): the first term of the expansion
\* that occurs in the lowercased skills text.
SkillsMatchResult(matches, matched_skill) == [matches |-> matches, matched_skill |-> matched_skill]
FirstVariantIn(expanded, skills_lower) ==
    LET hits == {i \in 1..Len(expanded) : Contains(expanded[i], skills_lower)}
    IN IF hits = {} THEN SkillsMatchResult(FALSE, <<>>)
       ELSE SkillsMatchResult(TRUE, expanded[Min(hits)])
skills_match(search_skill, employee_skills) ==
    IF ~Truthy(employee_skills) THEN SkillsMatchResult(FALSE, <<>>)
    ELSE FirstVariantIn(expand_skill_search(search_skill), Lower(employee_skills.v))

SkillTerms == {<<"r","e","a","c","t">>, <<" ","R","e","a","c","t"," ">>, <<"n","o","d","e">>, <<"v","u","e">>, <<"j","s">>, <<"r","e","a","c","t","j","s">>, <<"r","u","s","t">>, <<"P","y","t","h","o","n">>, <<"a","w","s">>}
SkillTexts ==
    {None, Str(<<>>), Str(<<"R","e","a","c","t",","," ","N","o","d","e">>), Str(<<"R","e","a","c","t","J","S",","," ","S","Q","L">>), Str(<<"V","u","e",","," ","R","u","s","t">>),
     Str(<<"J","a","v","a","S","c","r","i","p","t">>), Str(<<"P","y","t","h","o","n",","," ","A","W","S">>), Str(<<"[","\"","p","y","t","h","o","n","3","\"",","," ","\"","a","m","a","z","o","n"," ","w","e","b"," ","s","e","r","v","i","c","e","s","\"","]">>)}
SkillsInput(search_skill, employee_skills) ==
    [op |-> "input", fn |-> "skills_match", arg |-> search_skill, employee_skills |-> employee_skills]
SkillsMatch == Applied("skills_match", skills_match(call.arg, call.employee_skills))

\* C29: the list that expand_skill_search returns holds the lowercased,
\* trimmed term itself, so skills_match is true whenever the term occurs in
\* the employee's lowercased skills text.
C29_ExpansionHasTerm ==
    AppliedCall("expand_skill_search") => LookedUp \in Range(ret)
C29_TermInSkillsMatches ==
    (/\ AppliedCall("skills_match")
     /\ Truthy(call.employee_skills)
     /\ Contains(LookedUp, Lower(call.employee_skills.v)))
        => ret.matches

\* What skills_match reports is a term of the expansion that occurs in the
\* skills text, and it reports one whenever there is one.
C29_MatchIsExpandedTerm ==
    AppliedCall("skills_match") =>
        /\ ret.matches =>
               /\ ret.matched_skill \in Range(expand_skill_search(call.arg))
               /\ Contains(ret.matched_skill, Lower(call.employee_skills.v))
        /\ ~ret.matches =>
               \/ ~Truthy(call.employee_skills)
               \/ \A v \in Range(expand_skill_search(call.arg)) :
                      ~Contains(v, Lower(call.employee_skills.v))

InitSearch ==
    /\ ret = None
    /\ \/ /\ db = <<>>
          /\ call \in {SearchInput("soundex", name) : name \in SoundexInputs}
                     \cup {SearchInput("normalize_name", name) : name \in NormalizeInputs}
                     \cup {SearchInput("parse_compound_query", query) : query \in CompoundQueries}
                     \cup {SearchInput("expand_skill_search", term) : term \in TableTerms(SKILL_SYNONYMS) \cup OtherTerms}
                     \cup {SearchInput("expand_city_search", term) : term \in TableTerms(CITY_SYNONYMS) \cup OtherTerms}
       \/ /\ db = <<>>
          /\ call \in {SkillsInput(term, skills) : term \in SkillTerms, skills \in SkillTexts}
       \/ /\ db = <<>>
          /\ call \in {DurationInput(duration, today) : duration \in Durations, today \in Todays}
       \/ /\ db \in {[i \in 1..Len(c) |-> Worker(i, c[i])] : c \in WorkerCatalogs}
          /\ call \in RangeInputs
       \/ /\ db \in Catalogs
          /\ call \in {FilterInput(query, fields) : query \in FilterQueries, fields \in FieldLists}
NextSearch ==
    \/ Soundex
    \/ NormalizeName
    \/ ParseCompoundQuery
    \/ ApplyCompoundFilter
    \/ ExpandSkillSearch
    \/ ExpandCitySearch
    \/ SkillsMatch
    \/ ParseDurationToMonths
    \/ FindEmployeesInDateRange
SpecSearch == InitSearch /\ [][NextSearch]_vars

(***************************************************************************)
(* The extraction pipeline of process_cv: parse_llm_json, then             *)
(* quick_verify_extraction, then enforce_schema.  VALID_DEPARTMENTS is a   *)
(* set of strings, whose iteration order is fixed when the interpreter     *)
(* starts (string hashing is seeded per process): call.order is the order  *)
(* of the running process, and a restart draws it again.  ret is the list  *)
(* of the runs made so far, each with the order of its process.            *)
(***************************************************************************)
PipelineFrom(parsed, pdf_text, order) ==
    IF Truthy(parsed) THEN enforce_schema(quick_verify_extraction(parsed, pdf_text), order) ELSE None
Pipeline(extraction_resp, pdf_text, order) ==
    PipelineFrom(parse_llm_json(extraction_resp, Str(pdf_text)), pdf_text, order)

PipelineResponses ==
    { <<"{","\"","n","a","m","e","\"",":"," ","\"","J","o","h","n"," ","S","m","i","t","h","\"",","," ","\"","d","e","p","a","r","t","m","e","n","t","\"",":"," ","\"","e","\"","}">>,
      <<"{","\"","n","a","m","e","\"",":"," ","\"","J","o","h","n"," ","S","m","i","t","h","\"",","," ","\"","e","m","a","i","l","\"",":"," ","\"","j","o","h","n","@","x",".","c","o","\"",","," ","\"","d","e","p","a","r","t","m","e","n","t","\"",":"," ","\"","e","\"","}">>,
      <<"{","\"","n","a","m","e","\"",":"," ","\"","J","o","h","n"," ","S","m","i","t","h","\"",","," ","\"","d","e","p","a","r","t","m","e","n","t","\"",":"," ","\"","E","n","g","i","n","e","e","r","i","n","g"," ","D","e","p","t","\"","}">>,
      <<"{","\"","n","a","m","e","\"",":"," ","\"","J","o","h","n"," ","S","m","i","t","h","\"",","," ","\"","e","m","a","i","l","\"",":"," ","\"","j","o","h","n","@","x",".","c","o","\"",","," ","\"","d","e","p","a","r","t","m","e","n","t","\"",":"," ","\"","E","n","g","i","n","e","e","r","i","n","g"," ","D","e","p","t","\"","}">>,
      <<"{","\"","n","a","m","e","\"",":"," ","\"","J","o","h","n"," ","S","m","i","t","h","\"",","," ","\"","d","e","p","a","r","t","m","e","n","t","\"",":"," ","\"","I","T","\"","}">>,
      <<"{","\"","n","a","m","e","\"",":"," ","\"","J","o","h","n"," ","S","m","i","t","h","\"",","," ","\"","e","m","a","i","l","\"",":"," ","\"","j","o","h","n","@","x",".","c","o","\"",","," ","\"","d","e","p","a","r","t","m","e","n","t","\"",":"," ","\"","I","T","\"","}">>,
      <<"{","\"","n","a","m","e","\"",":"," ","\"","J","o","h","n"," ","S","m","i","t","h","\"",","," ","\"","d","e","p","a","r","t","m","e","n","t","\"",":"," ","\"","S","a","l","e","s"," ","a","n","d"," ","M","a","r","k","e","t","i","n","g","\"","}">>,
      <<"{","\"","n","a","m","e","\"",":"," ","\"","J","o","h","n"," ","S","m","i","t","h","\"",","," ","\"","e","m","a","i","l","\"",":"," ","\"","j","o","h","n","@","x",".","c","o","\"",","," ","\"","d","e","p","a","r","t","m","e","n","t","\"",":"," ","\"","S","a","l","e","s"," ","a","n","d"," ","M","a","r","k","e","t","i","n","g","\"","}">>,
      <<"{","\"","n","a","m","e","\"",":"," ","\"","J","o","h","n"," ","S","m","i","t","h","\"",","," ","\"","d","e","p","a","r","t","m","e","n","t","\"",":"," ","\"","A","s","t","r","o","l","o","g","y","\"","}">>,
      <<"{","\"","n","a","m","e","\"",":"," ","\"","J","o","h","n"," ","S","m","i","t","h","\"",","," ","\"","e","m","a","i","l","\"",":"," ","\"","j","o","h","n","@","x",".","c","o","\"",","," ","\"","d","e","p","a","r","t","m","e","n","t","\"",":"," ","\"","A","s","t","r","o","l","o","g","y","\"","}">>,
      <<"{","\"","n","a","m","e","\"",":"," ","\"","J","o","h","n"," ","S","m","i","t","h","\"",","," ","\"","d","e","p","a","r","t","m","e","n","t","\"",":"," ","\"","l","e","g","a","l","\"","}">>,
      <<"{","\"","n","a","m","e","\"",":"," ","\"","J","o","h","n"," ","S","m","i","t","h","\"",","," ","\"","e","m","a","i","l","\"",":"," ","\"","j","o","h","n","@","x",".","c","o","\"",","," ","\"","d","e","p","a","r","t","m","e","n","t","\"",":"," ","\"","l","e","g","a","l","\"","}">> }
PipelineTexts == {TContact, TAnnResume}
MaxRuns == 2

Run(order, record) == [order |-> order, record |-> record]

RunPipeline ==
    /\ call.op = "pipeline"
    /\ Len(ret) < MaxRuns
    /\ ret' = Append(ret, Run(call.order, Pipeline(call.response, call.raw_text, call.order)))
    /\ UNCHANGED <<db, call>>

RestartProcess ==
    /\ call.op = "pipeline"
    /\ Len(ret) < MaxRuns
    /\ \E order \in DepartmentOrders : call' = [call EXCEPT !.order = order]
    /\ UNCHANGED <<db, ret>>

InitPipeline ==
    /\ db = <<>>
    /\ call \in {[op |-> "pipeline", response |-> response, raw_text |-> raw_text, order |-> order] :
                    response \in PipelineResponses, raw_text \in PipelineTexts, order \in DepartmentOrders}
    /\ ret = <<>>
NextPipeline ==
    \/ RunPipeline
    \/ RestartProcess
SpecPipeline == InitPipeline /\ [][NextPipeline]_vars

\* C23: two runs of the pipeline on the same LLM text and source text give
\* the same record: the same values, confidences, errors and warnings.
C23_Deterministic ==
    \A i, j \in 1..Len(ret) : ret[i].record = ret[j].record

\* Within one process the runs agree.
C23_SameProcessSameRecord ==
    \A i, j \in 1..Len(ret) : ret[i].order = ret[j].order => ret[i].record = ret[j].record

(***************************************************************************)
(* The shared lookup tables and the lists that the lookups return          *)
(***************************************************************************)

\* The module-level tables of one interpreter process, as they are after the
\* import.  db of the lookup specification holds them as they are now.
LookupTables ==
    [SKILL_SYNONYMS |-> SKILL_SYNONYMS, CITY_SYNONYMS |-> CITY_SYNONYMS,
     COUNTRY_LANGUAGES |-> COUNTRY_LANGUAGES]

\* A returned list: the table and the row whose list object it is (row 0: a
\* list of its own), its items now, and its items when it was returned.
Returned(fn, arg, table, row, items) ==
    [fn |-> fn, arg |-> arg, table |-> table, row |-> row, items |-> items, returned |-> items]

\* expand_skill_search / expand_city_search on the tables of the process: the
\* row whose list is returned.  The keys are looked up in the table; the
\* reverse mapping was filled once, at import.
ExpandRow(tables, name, term_lower) ==
    IF KeyRow(tables[name], term_lower) # 0 THEN KeyRow(tables[name], term_lower)
    ELSE ToCanonical(LookupTables[name], term_lower)
ExpandIn(tables, fn, name, term) ==
    IF ExpandRow(tables, name, Strip(Lower(term))) # 0
    THEN Returned(fn, term, name, ExpandRow(tables, name, Strip(Lower(term))),
                  tables[name][ExpandRow(tables, name, Strip(Lower(term)))].variants)
    ELSE Returned(fn, term, name, 0, <<Strip(Lower(term))>>)

\* post_process_extraction of a record that has a country and no languages:
\* the languages it sets are the list of the first rule found in the country.
InferLanguagesIn(tables, country) ==
    IF FirstRule(tables.COUNTRY_LANGUAGES, Strip(Lower(country))) # 0
    THEN Returned("post_process_extraction", country, "COUNTRY_LANGUAGES",
                  FirstRule(tables.COUNTRY_LANGUAGES, Strip(Lower(country))),
                  tables.COUNTRY_LANGUAGES[FirstRule(tables.COUNTRY_LANGUAGES, Strip(Lower(country)))][2].v)
    ELSE Returned("post_process_extraction", country, "COUNTRY_LANGUAGES", 0, <<>>)

\* list.append on a list object: the row of the table that is this object
\* changes with it.
AppendToRow(tables, name, row, item) ==
    IF row = 0 THEN tables
    ELSE IF name = "COUNTRY_LANGUAGES"
    THEN [tables EXCEPT ![name][row][2] = List(Append(@.v, item))]
    ELSE [tables EXCEPT ![name][row].variants = Append(@, item)]

LookupSkills == {<<"r","e","a","c","t">>, <<"R","e","a","c","t","J","S"," ">>, <<"j","s">>, <<"r","u","s","t">>}
LookupCities == {<<"b","l","r">>, <<"B","a","n","g","a","l","o","r","e">>, <<"p","a","r","i","s">>}
LookupCountries == {<<"I","n","d","i","a">>, <<" ","c","a","n","a","d","a"," ">>}
CallerItems == {<<"x">>}
MaxCalls == 3
MaxAppends == 2

LookupCall(result) ==
    /\ call.op = "lookup"
    /\ call.calls < MaxCalls
    /\ call' = [call EXCEPT !.calls = @ + 1]
    /\ ret' = result
    /\ UNCHANGED db

CallExpandSkillSearch ==
    \E skill \in LookupSkills :
        LookupCall(ExpandIn(db, "expand_skill_search", "SKILL_SYNONYMS", skill))
CallExpandCitySearch ==
    \E city \in LookupCities :
        LookupCall(ExpandIn(db, "expand_city_search", "CITY_SYNONYMS", city))
CallPostProcessExtraction ==
    \E country \in LookupCountries : LookupCall(InferLanguagesIn(db, country))

\* The caller appends an item to the list it was given.
CallerAppends ==
    /\ call.op = "lookup"
    /\ ret # None
    /\ call.appends < MaxAppends
    /\ \E item \in CallerItems :
           /\ ret' = [ret EXCEPT !.items = Append(@, IF ret.table = "COUNTRY_LANGUAGES" THEN Str(item) ELSE item)]
           /\ db' = AppendToRow(db, ret.table, ret.row,
                                IF ret.table = "COUNTRY_LANGUAGES" THEN Str(item) ELSE item)
    /\ call' = [call EXCEPT !.appends = @ + 1]

InitLookup ==
    /\ db = LookupTables
    /\ call = [op |-> "lookup", calls |-> 0, appends |-> 0]
    /\ ret = None
NextLookup ==
    CallExpandSkillSearch \/ CallExpandCitySearch \/ CallPostProcessExtraction \/ CallerAppends
SpecLookup == InitLookup /\ [][NextLookup]_vars

\* What the call returns in a process whose tables nobody has touched.
FirstResult ==
    CASE ret.fn = "expand_skill_search" -> expand_skill_search(ret.arg)
      [] ret.fn = "expand_city_search" -> expand_city_search(ret.arg)
      [] OTHER -> DictGet(post_process_extraction(Dict([country |-> Str(ret.arg)]), None),
                          "languages").v

\* C24: the lists that expand_skill_search, expand_city_search and the
\* language inference of post_process_extraction return are lists of their
\* own, never the storage of a lookup table, so whatever a caller appends to a
\* list it was given, the tables stay as they were at import and every later
\* call returns what the first call returned.
C24_LaterCallsUnchanged ==
    ret # None => ret.returned = FirstResult
C24_NoSharedStorage ==
    ret # None => ret.row = 0
C24_TablesNeverMutated ==
    db = LookupTables

\* A term that is in no row of its table is returned in a list of its own,
\* which the caller may change without any effect on the tables.
C24_UnknownTermFresh ==
    [][(ret # None /\ ret.row = 0) => db' = db]_vars

(***************************************************************************)
(* The chat handler's ACTION: DELETE                                       *)
(***************************************************************************)
confirm_keywords ==
    <<<<"c","o","n","f","i","r","m">>, <<"c","o","n","f","i","r","m","e","d">>, <<"y","e","s">>, <<"p","r","o","c","e","e","d">>, <<"i"," ","a","m"," ","s","u","r","e">>, <<"i","'","m"," ","s","u","r","e">>>>

\* any(kw in prompt.lower() for kw in confirm_keywords)
has_confirmation(prompt) ==
    \E k \in 1..Len(confirm_keywords) : Contains(confirm_keywords[k], Lower(prompt))

\* special_llm_context of the delete branch, by its type.
LlmContext(type) == [type |-> type]
DeleteResult == [type |-> "crud_result", operation |-> "delete", success |-> TRUE]

\* db.delete(emp); db.commit()
DeleteRow(employees, emp) == SelectSeq(employees, LAMBDA e : e.id # emp.id)

\* The delete branch on the result of the resolution.
DeleteResolved(employees, prompt, resolved) ==
    IF resolved.single = None /\ Len(resolved.matches) > 0
    THEN [db |-> employees, context |-> LlmContext("multiple_matches")]
    ELSE IF resolved.single = None
    THEN [db |-> employees, context |-> LlmContext("no_match")]
    ELSE IF ~has_confirmation(prompt)
    THEN [db |-> employees, context |-> LlmContext("delete_confirmation")]
    ELSE [db |-> DeleteRow(employees, resolved.single), context |-> DeleteResult]

ChatDelete(prompt, emp_id, emp_name) ==
    /\ call' = [op |-> "delete", prompt |-> prompt, emp_id |-> emp_id, emp_name |-> emp_name,
                resolved |-> resolve_employee_with_duplicates(db, emp_id, emp_name)]
    /\ db' = DeleteResolved(db, prompt, resolve_employee_with_duplicates(db, emp_id, emp_name)).db
    /\ ret' = DeleteResolved(db, prompt, resolve_employee_with_duplicates(db, emp_id, emp_name)).context

\* The employees tables of the delete specification: up to three employees,
\* with the identifiers that successive creates give them.
NMariaReyes == <<"M","a","r","i","a"," ","R","e","y","e","s">>
DeleteNames == {<<NJohnSmith, NJohnDoe, NMariaReyes>>, <<NMariaReyes, NJohnSmith, NJohnSmith>>}
DeleteTables ==
    UNION {{[i \in 1..n |-> [id |-> i, employee_id |-> ZFill(StrOfNat(i), 6),
                             name |-> names[i], email |-> None]] : n \in 0..Len(names)} :
           names \in DeleteNames}

\* A delete command: the user's prompt, and the reference that the command
\* parser took from it.
DeleteRequest(prompt, emp_id, emp_name) == [prompt |-> prompt, emp_id |-> emp_id, emp_name |-> emp_name]
DeleteRequests ==
    { DeleteRequest(<<"d","e","l","e","t","e"," ","J","o","h","n"," ","S","m","i","t","h">>, None, Str(NJohnSmith)),
      DeleteRequest(<<"Y","e","s",","," ","d","e","l","e","t","e"," ","J","o","h","n"," ","S","m","i","t","h">>, None, Str(NJohnSmith)),
      DeleteRequest(<<"d","e","l","e","t","e"," ","J","o","h","n"," ","D","o","e",","," ","I","'","m"," ","s","u","r","e">>, None, Str(NJohnDoe)),
      DeleteRequest(<<"d","e","l","e","t","e"," ","J","o","h","n">>, None, Str(NJohn)),
      DeleteRequest(<<"c","o","n","f","i","r","m",":"," ","d","e","l","e","t","e"," ","J","o","h","n">>, None, Str(NJohn)),
      DeleteRequest(<<"c","o","n","f","i","r","m",":"," ","d","e","l","e","t","e"," ","Z","e","d">>, None, Str(NZed)),
      DeleteRequest(<<"d","e","l","e","t","e"," ","M","a","r","i","a"," ","R","e","y","e","s">>, None, Str(NMariaReyes)),
      DeleteRequest(<<"d","e","l","e","t","e"," ","e","m","p","l","o","y","e","e"," ","1">>, Num(1), None),
      DeleteRequest(<<"d","e","l","e","t","e"," ","e","m","p","l","o","y","e","e"," ","1"," ","c","o","n","f","i","r","m">>, Num(1), None),
      DeleteRequest(<<"r","e","m","o","v","e"," ","e","m","p","l","o","y","e","e"," ","0","0","0","0","0","2",","," ","p","r","o","c","e","e","d">>, Str(<<"0","0","0","0","0","2">>), None),
      DeleteRequest(<<"d","e","l","e","t","e"," ","e","m","p","l","o","y","e","e"," ","7"," ","c","o","n","f","i","r","m","e","d">>, Num(7), None) }

InitDelete ==
    /\ db \in DeleteTables
    /\ call = Idle
    /\ ret = None
NextDelete ==
    \E r \in DeleteRequests : ChatDelete(r.prompt, r.emp_id, r.emp_name)
SpecDelete == InitDelete /\ [][NextDelete]_vars

\* A confirmation keyword stands in the prompt as words of its own: the
\* characters before and after it are no letters.
IsLetter(c) == InSeq(c, LowerLetters) \/ InSeq(c, UpperLetters)
KeywordAt(prompt_lower, kw, i) ==
    /\ SubSeq(prompt_lower, i, i + Len(kw) - 1) = kw
    /\ (i = 1 \/ ~IsLetter(prompt_lower[i - 1]))
    /\ (i + Len(kw) > Len(prompt_lower) \/ ~IsLetter(prompt_lower[i + Len(kw)]))
ExplicitConfirmation(prompt) ==
    \E k \in 1..Len(confirm_keywords) :
        \E i \in 1..(Len(prompt) - Len(confirm_keywords[k]) + 1) :
            KeywordAt(Lower(prompt), confirm_keywords[k], i)

\* C26: a chat delete removes a record only if the reference resolved to a
\* single employee and the prompt carries an explicit confirmation keyword;
\* otherwise the table is left as it is and the handler asks which employee is
\* meant, reports that there is none, or asks for the confirmation.
C26_DeleteNeedsConfirmation ==
    [][IF call'.resolved.single # None /\ ExplicitConfirmation(call'.prompt)
       THEN TRUE
       ELSE /\ db' = db
            /\ ret'.type \in {"multiple_matches", "no_match", "delete_confirmation"}]_vars

\* The same with the test of the handler, which looks for a keyword anywhere
\* in the lowercased prompt.
C26_DeleteNeedsKeywordText ==
    [][IF call'.resolved.single # None /\ has_confirmation(call'.prompt)
       THEN db' = DeleteRow(db, call'.resolved.single) /\ ret' = DeleteResult
       ELSE /\ db' = db
            /\ ret'.type \in {"multiple_matches", "no_match", "delete_confirmation"}]_vars

\* An unresolved or ambiguous reference never deletes, whatever the prompt.
C26_UnresolvedNeverDeletes ==
    [][call'.resolved.single = None => db' = db]_vars

(***************************************************************************)
(* Upload jobs: upload_cv starts a thread that runs process_cv, which      *)
(* writes the job file that job_status reads.  call[j] is the thread of    *)
(* job j, ret[j] the status that job_status reports for it, db the         *)
(* employees table (the identifiers of the jobs whose record was created). *)
(* A step of process_cv that can fail draws its outcome; the writes of the *)
(* job file succeed.                                                       *)
(***************************************************************************)
MaxJobs == 2
Jobs == 1..MaxJobs

Thread(pc, pdf_text) == [pc |-> pc, pdf_text |-> pdf_text]
TerminalStatuses == {"done", "failed"}

\* The thread of job j goes to pc; the job file gets the status, the table the rows.
ThreadStep(j, thread, status, employees) ==
    /\ call' = [call EXCEPT ![j] = thread]
    /\ ret' = [ret EXCEPT ![j] = status]
    /\ db' = employees

\* upload_cv: the file is saved, the thread is started, the job is queued.
\* No job file exists yet: job_status reports pending.
upload_cv(j) ==
    /\ call[j].pc = "none"
    /\ ThreadStep(j, Thread("started", "none"), "pending", db)

\* process_cv, the initial write of the job file.
WriteProcessing(j) ==
    /\ call[j].pc = "started"
    /\ ThreadStep(j, Thread("fetch", "none"), "processing", db)

\* data = storage.get_file(file_id); without data the job fails.
FetchFile(j) ==
    /\ call[j].pc = "fetch"
    /\ \E data \in BOOLEAN :
           IF data THEN ThreadStep(j, Thread("extract", "none"), ret[j], db)
           ELSE ThreadStep(j, Thread("returned", "none"), "failed", db)

\* extract_text_auto: the text of a resume, of another document, or an
\* exception, after which the text is empty.
ExtractText(j) ==
    /\ call[j].pc = "extract"
    /\ \E pdf_text \in {"resume", "other", "empty"} :
           ThreadStep(j, Thread("validate", pdf_text), ret[j], db)

\* validate_is_resume: a document that is no resume fails the job before
\* anything is stored.
IsResume(pdf_text) ==
    IF pdf_text = "empty" THEN validate_is_resume(Str(<<>>)).is_valid ELSE pdf_text = "resume"
ValidateDocument(j) ==
    /\ call[j].pc = "validate"
    /\ IF IsResume(call[j].pdf_text)
       THEN ThreadStep(j, Thread("create", call[j].pdf_text), ret[j], db)
       ELSE ThreadStep(j, Thread("returned", call[j].pdf_text), "failed", db)

\* db.add(emp); db.commit(); db.refresh(emp) inside try ... finally
\* db.close(): an exception of the commit leaves process_cv, and
\* run_process_cv logs it.
CreateEmployee(j) ==
    /\ call[j].pc = "create"
    /\ \E committed \in BOOLEAN :
           IF committed
           THEN ThreadStep(j, Thread("index", call[j].pdf_text), ret[j], Append(db, j))
           ELSE ThreadStep(j, Thread("raised", call[j].pdf_text), ret[j], db)

\* The chunks are indexed and their number is added to the job file, whose
\* status stays; every exception is passed over.
IndexChunks(j) ==
    /\ call[j].pc = "index"
    /\ ThreadStep(j, Thread("llm", call[j].pdf_text), ret[j], db)

\* The LLM extraction: an exception is caught and recorded in the job file
\* as extraction_error, the status stays.
LlmExtraction(j) ==
    /\ call[j].pc = "llm"
    /\ \E extracted \in BOOLEAN :
           ThreadStep(j, Thread("finish", call[j].pdf_text), ret[j], db)

\* The final write of the job file.
WriteDone(j) ==
    /\ call[j].pc = "finish"
    /\ ThreadStep(j, Thread("returned", call[j].pdf_text), "done", db)

process_cv(j) ==
    \/ WriteProcessing(j)
    \/ FetchFile(j)
    \/ ExtractText(j)
    \/ ValidateDocument(j)
    \/ CreateEmployee(j)
    \/ IndexChunks(j)
    \/ LlmExtraction(j)
    \/ WriteDone(j)

InitUpload ==
    /\ db = <<>>
    /\ call = [j \in Jobs |-> Thread("none", "none")]
    /\ ret = [j \in Jobs |-> "pending"]
NextUpload == \E j \in Jobs : upload_cv(j) \/ process_cv(j)
SpecUpload == InitUpload /\ [][NextUpload]_vars
\* A thread that was started runs: each step of process_cv that is enabled
\* is taken at some time.
SpecUploadFair == SpecUpload /\ \A j \in Jobs : WF_vars(process_cv(j))

\* C30: every upload job whose thread runs reaches a terminal status: the
\* status that job_status reports becomes done or failed and does not stay
\* processing, whichever step fails.
C30_EventuallyTerminal ==
    \A j \in Jobs : (ret[j] = "processing") ~> (ret[j] \in TerminalStatuses)

\* A terminal status is never followed by another status.
C30_TerminalIsFinal ==
    [][\A j \in Jobs : ret[j] \in TerminalStatuses => ret'[j] = ret[j]]_vars

\* The jobs that stay processing are those whose employee record could not be
\* created.
C30_TerminalUnlessCreateFails ==
    \A j \in Jobs :
        (ret[j] = "processing") ~> (ret[j] \in TerminalStatuses \/ call[j].pc = "raised")
C30_RaisedStaysProcessing ==
    \A j \in Jobs : call[j].pc = "raised" => ret[j] = "processing"

====
